---- MODULE Spec2Model ----
(***************************************************************************)
(* Model of the regtest blockchain fixture generator.                      *)
(*                                                                         *)
(*   Spec     one run of Generator.generate() (src/generate.py) together   *)
(*            with the DashdManager it starts (src/generator/               *)
(*            dashd_manager.py).  Every rpc.call of the run is one step    *)
(*            whose outcome is a result or one of the typed failures the   *)
(*            gateway raises.                                              *)
(*   SpecRpc  one DashRPCClient.call (src/generator/rpc_client.py), attempt*)
(*            by attempt.                                                  *)
(*   SpecInj  one block of the generation loop with the ledger of one      *)
(*            wallet; SpecAmt the spend of one call for every balance.     *)
(*   SpecSmp  one call of the density sampler.                             *)
(*   SpecOut  the amounts of one spend in units of the eighth decimal.     *)
(*                                                                         *)
(* The daemon is an external program: what it answers is drawn from small  *)
(* sets; the chain height is the one piece of daemon state that is kept,   *)
(* and a successful generatetoaddress n raises it by n.                    *)
(***************************************************************************)
EXTENDS Integers, Sequences, FiniteSets, TLC

\* ------------------------------------------------------------------ bounds
\* target heights reach at most this far above the height seeding and funding
\* always produce
MaxExtraBlocks == 2
\* the density draws of Spec are those that give at most this many injections
MaxTxPerBlock == 2
\* readiness polls of _wait_for_ready before its timeout must have elapsed
MaxPolls == 2
\* height of an already running (not auto-started) daemon's chain
MaxStartHeight == 1

\* -------------------------------------------------------- program constants
SeedBlocks1 == 200
SeedBlocks2 == 100
SeedBlocks3 == 100
MaxSplitIterations == 10
MaxBatch == 50
SplitFloor == 10
target_utxo_count == 200
ProgressEvery == 100
ScenarioTarget == 50

\* the tier wallets in the order _load_addresses creates them
WalletNames == <<"light", "normal", "heavy">>

NumAddresses(w) ==
    CASE w = "light" -> 20
      [] w = "normal" -> 60
      [] OTHER -> 120

NumFundingTxs(tier) ==
    IF tier = "light" THEN 20
    ELSE IF tier = "normal" THEN 40
    ELSE 60

\* the typed failures DashRPCClient.call raises: RPCError, InsufficientFundsError,
\* DashdConnectionError
Failures == {"rpc", "funds", "conn"}
Outcomes == {"ok"} \cup Failures

\* DashdConnectionError derives from RPCError; InsufficientFundsError does not
IsRPCError(k) == k \in {"rpc", "conn"}

VARIABLES
    \* control
    pc,             \* the statement generate() is at
    exc,            \* the exception propagating out of generate(), or "none"
    raisedAt,       \* the statement that raised it
    interrupted,    \* a KeyboardInterrupt was caught by generate()
    \* Config and Generator construction
    auto_start, keep_temp, target_blocks,
    \* DashdManager
    mgr,            \* Generator.dashd_manager is not None
    process,        \* DashdManager.process is not None
    procRunning,    \* the daemon's operating-system process is alive
    temp_dir,       \* DashdManager.temp_dir is not None
    tempExists,     \* the temporary directory exists on disk
    should_cleanup,
    atexitReg,      \* start() registered stop() as exit hook
    start,          \* start(): polls made, readiness seen, how it ended
    \* the daemon's chain
    height,
    \* Generator
    wallets, stats, utxo_count,
    loc,            \* the locals of the function generate() is in
    hist,           \* what the run has done so far: payments and blocks per phase
    inj,            \* what the last _create_transaction call did
    phases,         \* the phases entered so far, in order
    \* DashRPCClient.call (SpecRpc)
    rpc,
    \* one block of the generation loop seen from one wallet (SpecInj, SpecAmt)
    tx,
    \* one call of the density sampler (SpecSmp)
    smp,
    \* one spend of _create_transaction in units of the eighth decimal (SpecOut)
    out

ctl == <<pc, exc, raisedAt, interrupted>>
cfg == <<auto_start, keep_temp, target_blocks>>
mgrVars == <<mgr, process, procRunning, temp_dir, tempExists, should_cleanup, atexitReg, start>>
genVars == <<wallets, stats, utxo_count, hist, inj>>
vars == <<ctl, cfg, mgrVars, height, genVars, loc, phases, rpc, tx, smp, out>>

\* ------------------------------------------------------------------ phases
\* The phase a statement of generate() belongs to: INIT is daemon start-up,
\* verification and wallet creation, SEEDING the mining and splitting part of
\* _initialize_utxo_pool, FUNDING its funding loop, GENERATING
\* _generate_blocks, EXPORTING _export_data, DONE the printed summary.
PhaseOf(p) ==
    CASE p \in {"ensure", "start_verify", "start_ports", "start_popen", "start_wait",
                "start_failed", "verify", "loadwallet", "createwallet", "load"} -> "INIT"
      [] p \in {"seed_addr", "seed_gen1", "seed_gen2", "seed_gen3", "split_addr",
                "split_list", "split_balance", "split_recipients", "split_send",
                "split_mine", "split_final", "seed_count"} -> "SEEDING"
      [] p \in {"fund_send", "fund_mine", "fund_balance"} -> "FUNDING"
      [] p \in {"gen_start", "gen_sample", "gen_inject", "gen_mine"} -> "GENERATING"
      [] p \in {"exp_height", "exp_stats", "exp_stop", "exp_copy", "exp_cleanup"} -> "EXPORTING"
      [] p = "summary" -> "DONE"
      [] OTHER -> "END"

InTry == PhaseOf(pc) # "END"

\* move to statement p, noting a phase that is entered
Goto(p) ==
    /\ pc' = p
    /\ phases' = IF PhaseOf(p) # PhaseOf(pc) /\ PhaseOf(p) # "END"
                 THEN Append(phases, PhaseOf(p))
                 ELSE phases

\* the locals of _split_utxos (iteration, current_count, balance, batch =
\* len(recipients); count_height and balance_height are the chain heights at
\* which current_count and balance were read),
\* of the funding loop (wi = index of the wallet, fi = i, addr = index of the
\* address the last transfer went to, failed = a transfer of the run was caught
\* failing) and of _generate_blocks (done = injections made
\* for the current block); a function's locals end with it
NoLocals ==
    [iteration |-> 0, current_count |-> 0, balance |-> 0, batch |-> 0,
     count_height |-> -1, balance_height |-> -1,
     wi |-> 0, fi |-> 0, addr |-> -1, failed |-> FALSE,
     blocks_to_generate |-> 0, block_num |-> 0, tx_count |-> 0, done |-> 0,
     tx_attempts |-> 0, tx_successes |-> 0]

\* a bug: the export is run after a failure too
RaiseThenExport(k) ==
    /\ exc' = k
    /\ raisedAt' = pc
    /\ interrupted' = interrupted
    /\ loc' = NoLocals
    /\ Goto("exp_height")

\* an exception of kind k leaves the try block of generate() (lines 90-113)
Raise(k) ==
    /\ exc' = k
    /\ raisedAt' = pc
    /\ interrupted' = interrupted
    /\ loc' = NoLocals
    /\ Goto("finally")

\* go on with statement p and the locals l
Step(p, l) ==
    /\ Goto(p)
    /\ loc' = l
    /\ UNCHANGED <<exc, raisedAt, interrupted>>

Continue(p) == Step(p, loc)

\* ------------------------------------------------------------ DashdManager
StopOutcomes == {"graceful", "forced", "error", "interrupted"}

\* What stop() leaves behind, as <<process, procRunning, temp_dir, tempExists>>.
\*   graceful     terminate() and wait(10) return
\*   forced       wait(10) times out, kill() and wait() follow
\*   error        terminate()/wait() raise an Exception: the child is gone already
\*   interrupted  a KeyboardInterrupt arrives in wait(): finally sets process to
\*                None and the exception leaves stop() before the directory cleanup
\* a bug: the cleanup removes the directory and keeps the reference
StopResultKeepsReference(o) ==
    LET stopped == process /\ o = "interrupted"
        cleanup == ~stopped /\ temp_dir /\ should_cleanup
    IN  << FALSE,
           IF process /\ o # "interrupted" THEN FALSE ELSE procRunning,
           temp_dir,
           IF cleanup THEN FALSE ELSE tempExists >>

StopResult(o) ==
    LET stopped == process /\ o = "interrupted"
        cleanup == ~stopped /\ temp_dir /\ should_cleanup
    IN  << FALSE,
           IF process /\ o # "interrupted" THEN FALSE ELSE procRunning,
           IF cleanup THEN FALSE ELSE temp_dir,
           IF cleanup THEN FALSE ELSE tempExists >>

StopPossible(o) ==
    /\ o = "error" => (process /\ ~procRunning)
    /\ o = "forced" => (process /\ procRunning)
    /\ o = "interrupted" => process

Stop(o) ==
    /\ StopPossible(o)
    /\ process' = StopResult(o)[1]
    /\ procRunning' = StopResult(o)[2]
    /\ temp_dir' = StopResult(o)[3]
    /\ tempExists' = StopResult(o)[4]

\* _ensure_dashd_running (lines 125-146)
EnsureDashdRunning ==
    /\ pc = "ensure"
    /\ IF auto_start
       THEN /\ mgr' = TRUE
            /\ Continue("start_verify")
       ELSE /\ mgr' = mgr
            /\ Continue("verify")
    /\ UNCHANGED <<cfg, process, procRunning, temp_dir, tempExists, should_cleanup,
                   atexitReg, start, height, genVars, rpc, tx, smp, out>>

\* start(): verify_dashd_executable
StartVerifyExecutable ==
    /\ pc = "start_verify"
    /\ \E ok \in BOOLEAN :
         IF ok
         THEN /\ Continue("start_ports")
              /\ start' = start
         ELSE /\ Raise("conn")
              /\ start' = [start EXCEPT !.result = "raised"]
    /\ UNCHANGED <<cfg, mgr, process, procRunning, temp_dir, tempExists, should_cleanup,
                   atexitReg, height, genVars, rpc, tx, smp, out>>

\* start(): RPC and P2P port, then the temporary directory
StartPorts ==
    /\ pc = "start_ports"
    /\ \E ok \in BOOLEAN :
         IF ok
         THEN /\ temp_dir' = TRUE
              /\ tempExists' = TRUE
              /\ should_cleanup' = ~keep_temp
              /\ Continue("start_popen")
              /\ start' = start
         ELSE /\ Raise("conn")
              /\ start' = [start EXCEPT !.result = "raised"]
              /\ UNCHANGED <<temp_dir, tempExists, should_cleanup>>
    /\ UNCHANGED <<cfg, mgr, process, procRunning, atexitReg, height, genVars, rpc, tx, smp, out>>

\* start(): Popen, then atexit.register(self.stop)
StartPopen ==
    /\ pc = "start_popen"
    /\ \E ok \in BOOLEAN :
         IF ok
         THEN /\ process' = TRUE
              /\ procRunning' = TRUE
              /\ atexitReg' = TRUE
              /\ Continue("start_wait")
              /\ start' = start
         ELSE /\ Raise("conn")
              /\ start' = [start EXCEPT !.result = "raised"]
              /\ UNCHANGED <<process, procRunning, atexitReg>>
    /\ UNCHANGED <<cfg, mgr, temp_dir, tempExists, should_cleanup, height, genVars, rpc, tx, smp, out>>

\* a bug: the timeout is taken for readiness
ReadyTurnTimeoutTrue(timedOut, alive, o) ==
    IF timedOut THEN "true"
    ELSE IF ~alive THEN "false"
    ELSE IF o = "ok" THEN "true"
    ELSE "again"

\* One turn of the loop of _wait_for_ready (lines 185-199): "false" and "true"
\* are its return values, "again" the sleep before the next turn.  o is the
\* outcome of rpc.call('getblockcount'), made only if the first two tests pass.
ReadyTurn(timedOut, alive, o) ==
    IF timedOut THEN "false"
    ELSE IF ~alive THEN "false"
    ELSE IF o = "ok" THEN "true"
    ELSE "again"

\* The daemon may have exited since the last turn.  start.ready notes that a
\* getblockcount call to the new daemon has succeeded.
WaitForReady ==
    /\ pc = "start_wait"
    /\ \E timedOut \in BOOLEAN, died \in BOOLEAN, o \in Outcomes :
         /\ timedOut => start.polls >= 1
         /\ start.polls >= MaxPolls => timedOut
         /\ procRunning' = (procRunning /\ ~died)
         /\ LET called == ~timedOut /\ procRunning'
                turn == ReadyTurn(timedOut, procRunning', o)
            IN  CASE turn = "false" ->
                       /\ Continue("start_failed")
                       /\ start' = [start EXCEPT !.polls = 0]
                  [] turn = "true" ->
                       /\ Continue("verify")
                       /\ start' = [polls |-> 0, ready |-> called /\ o = "ok",
                                    result |-> "returned"]
                  [] OTHER ->
                       /\ Continue("start_wait")
                       /\ start' = [start EXCEPT !.polls = @ + 1]
    /\ UNCHANGED <<cfg, mgr, process, temp_dir, tempExists, should_cleanup, atexitReg,
                   height, genVars, rpc, tx, smp, out>>

\* start(): _wait_for_ready returned False: stop(), then raise
StartFailed ==
    /\ pc = "start_failed"
    /\ \E o \in StopOutcomes :
         /\ Stop(o)
         /\ IF o = "interrupted"
            THEN /\ exc' = "generator"
                 /\ raisedAt' = pc
                 /\ interrupted' = TRUE
                 /\ loc' = NoLocals
                 /\ Goto("finally")
                 /\ start' = [start EXCEPT !.result = "interrupted"]
            ELSE /\ Raise("conn")
                 /\ start' = [start EXCEPT !.result = "raised"]
    /\ UNCHANGED <<cfg, mgr, should_cleanup, atexitReg, height, genVars, rpc, tx, smp, out>>

\* _verify_dashd: getblockcount (lines 159-166)
VerifyDashd ==
    /\ pc = "verify"
    /\ \E o \in Outcomes :
         IF o = "ok" THEN Continue("loadwallet") ELSE Raise(o)
    /\ UNCHANGED <<cfg, mgrVars, height, genVars, rpc, tx, smp, out>>

\* what the handler of loadwallet's RPCError does with the message (lines 173-184)
LoadWalletAnswers == {"ok", "already loaded", "not found", "rpc", "conn", "funds"}

LoadWallet ==
    /\ pc = "loadwallet"
    /\ \E a \in LoadWalletAnswers :
         CASE a \in {"ok", "already loaded"} -> Continue("load")
           [] a = "not found" -> Continue("createwallet")
           [] OTHER -> Raise(a)
    /\ UNCHANGED <<cfg, mgrVars, height, genVars, rpc, tx, smp, out>>

CreateDefaultWallet ==
    /\ pc = "createwallet"
    /\ \E o \in Outcomes :
         IF o = "ok" THEN Continue("load") ELSE Raise(o)
    /\ UNCHANGED <<cfg, mgrVars, height, genVars, rpc, tx, smp, out>>

\* ------------------------------------------------------- _load_addresses
CreateWalletAnswers == {"ok", "already exists", "rpc", "conn", "funds"}

\* One turn of the loop over wallet_configs (lines 197-254): createwallet, then
\* dumphdinfo and the getnewaddress / dumpprivkey / getaddressinfo calls of the
\* wallet's addresses, whose first failure leaves the function.
LoadAddresses ==
    /\ pc = "load"
    /\ \E a \in CreateWalletAnswers, o \in Outcomes :
         IF a \notin {"ok", "already exists"}
         THEN Raise(a) /\ wallets' = wallets
         ELSE IF o # "ok"
         THEN Raise(o) /\ wallets' = wallets
         ELSE /\ wallets' = Append(wallets, WalletNames[Len(wallets) + 1])
              /\ Continue(IF Len(wallets) + 1 = Len(WalletNames) THEN "seed_addr" ELSE "load")
    /\ UNCHANGED <<cfg, mgrVars, height, stats, utxo_count, hist, inj, rpc, tx, smp, out>>

\* ------------------------------------------------- _initialize_utxo_pool
\* a bug: every mining call yields a block too many
MineOneMore(n) == height' = height + n + 1

\* generatetoaddress n: the chain grows by n blocks
Mine(n) == height' = height + n

SeedAddress ==
    /\ pc = "seed_addr"
    /\ \E o \in Outcomes :
         IF o = "ok"
         THEN Continue("seed_gen1") /\ hist' = [hist EXCEPT !.seed_height = height]
         ELSE Raise(o) /\ hist' = hist
    /\ UNCHANGED <<cfg, mgrVars, height, wallets, stats, utxo_count, inj, rpc, tx, smp, out>>

\* a bug: the seeding calls mine nothing
SeedStepNoBlocks(at, n, next) ==
    /\ pc = at
    /\ \E o \in Outcomes :
         IF o = "ok"
         THEN Mine(0) /\ Continue(next)
         ELSE Raise(o) /\ height' = height
    /\ UNCHANGED <<cfg, mgrVars, genVars, rpc, tx, smp, out>>

\* the three generatetoaddress calls of lines 387, 390 and 394
SeedStep(at, n, next) ==
    /\ pc = at
    /\ \E o \in Outcomes :
         IF o = "ok"
         THEN Mine(n) /\ Continue(next)
         ELSE Raise(o) /\ height' = height
    /\ UNCHANGED <<cfg, mgrVars, genVars, rpc, tx, smp, out>>

SeedGenerate1 == SeedStep("seed_gen1", SeedBlocks1, "seed_gen2")
SeedGenerate2 == SeedStep("seed_gen2", SeedBlocks2, "seed_gen3")
SeedGenerate3 == SeedStep("seed_gen3", SeedBlocks3, "split_addr")

\* ----------------------------------------------------------- _split_utxos
\* what listunspent may show for the faucet, and getbalance in hundredths of a coin
Coin == 100
UtxoCounts == {0, 199, 200, 300}

\* a mining reward is spendable, and listed by listunspent, once this many
\* blocks follow it ("Waiting for maturity (100 blocks)", line 389)
CoinbaseMaturity == 100

\* a bug: no reward ever matures
MatureRewardsNone(h) == 0

\* the rewards of a chain of height h, all paid to the faucet, that have matured
MatureRewards(h) == IF h > CoinbaseMaturity THEN h - CoinbaseMaturity ELSE 0

\* len(listunspent 1) of the faucet wallet (lines 441, 467, 399): on the chain of
\* an auto-started daemon, whose faucet wallet has only mined so far, the matured
\* rewards; any count for a wallet that has a past or has made payments
ListUnspentCounts ==
    IF auto_start /\ hist.payments = 0 THEN {MatureRewards(height)} ELSE UtxoCounts
SplitBalances == {SplitFloor * Coin - 1, SplitFloor * Coin}

Min(a, b) == IF a < b THEN a ELSE b

\* len(recipients) of lines 454-457
BatchSize(target, current) == Min(MaxBatch, target - current)

\* a bug: one iteration too many
SplitLoopRunsOnceMore(iteration) == iteration <= MaxSplitIterations

\* the loop condition of line 440
SplitLoopRuns(iteration) == iteration < MaxSplitIterations

\* _split_utxos returns to line 399
SplitReturns ==
    /\ Step("seed_count", NoLocals)
    /\ hist' = [hist EXCEPT !.send_failed = FALSE]

\* A failure inside the outer try of _split_utxos (lines 436-471):
\* InsufficientFundsError ends the function normally, the rest propagates.
SplitFails(k) ==
    IF k = "funds" THEN SplitReturns ELSE Raise(k) /\ hist' = hist

SplitAddress ==
    /\ pc = "split_addr"
    /\ \E o \in Outcomes :
         IF o = "ok"
         THEN /\ Continue("split_list")
              /\ hist' = [hist EXCEPT !.split_height = height]
         ELSE SplitFails(o)
    /\ UNCHANGED <<cfg, mgrVars, height, wallets, stats, utxo_count, inj, rpc, tx, smp, out>>

\* a bug: a count equal to the target does not end the loop
SplitTargetAbove(current_count, target_count) == current_count > target_count

\* the test of line 447
SplitTargetMet(current_count, target_count) == current_count >= target_count

\* the test of line 451
BelowSplitFloor(balance) == balance < SplitFloor * Coin

\* loop head, listunspent and the test of line 447
SplitList ==
    /\ pc = "split_list"
    /\ IF ~SplitLoopRuns(loc.iteration)
       THEN Continue("split_final") /\ hist' = hist
       ELSE \E o \in Outcomes :
              IF o # "ok"
              THEN SplitFails(o)
              ELSE \E c \in ListUnspentCounts :
                     /\ Step(IF SplitTargetMet(c, target_utxo_count)
                             THEN "split_final" ELSE "split_balance",
                             [loc EXCEPT !.current_count = c, !.count_height = height])
                     /\ hist' = hist
    /\ UNCHANGED <<cfg, mgrVars, height, wallets, stats, utxo_count, inj, rpc, tx, smp, out>>

\* getbalance and the test of line 451
SplitBalance ==
    /\ pc = "split_balance"
    /\ \E o \in Outcomes :
         IF o # "ok"
         THEN SplitFails(o)
         ELSE \E b \in SplitBalances :
                /\ Step(IF BelowSplitFloor(b) THEN "split_final" ELSE "split_recipients",
                        [loc EXCEPT !.balance = b, !.balance_height = height])
                /\ hist' = hist
    /\ UNCHANGED <<cfg, mgrVars, height, wallets, stats, utxo_count, inj, rpc, tx, smp, out>>

\* the getnewaddress calls that fill recipients (lines 454-457)
SplitRecipients ==
    /\ pc = "split_recipients"
    /\ \E o \in Outcomes :
         IF o # "ok"
         THEN SplitFails(o)
         ELSE /\ Step("split_send",
                      [loc EXCEPT !.batch = BatchSize(target_utxo_count, loc.current_count)])
              /\ hist' = hist
    /\ UNCHANGED <<cfg, mgrVars, height, wallets, stats, utxo_count, inj, rpc, tx, smp, out>>

\* a bug: the loop goes on after a failed payment
SplitSendNextAlwaysMine(o) == "split_mine"

\* a bug: the next iteration starts without a block
SplitSendNextNoBlock(o) == IF o = "ok" THEN "split_list" ELSE "split_final"

\* where the loop goes after sendmany: the handler of line 461 breaks
SplitSendNext(o) == IF o = "ok" THEN "split_mine" ELSE "split_final"

\* sendmany (lines 459-462): every typed failure breaks out of the loop
SplitSend ==
    /\ pc = "split_send"
    /\ \E o \in Outcomes :
         /\ hist' = IF o = "ok" THEN [hist EXCEPT !.payments = @ + 1]
                    ELSE [hist EXCEPT !.send_failed = TRUE]
         /\ Continue(SplitSendNext(o))
    /\ UNCHANGED <<cfg, mgrVars, height, wallets, stats, utxo_count, inj, rpc, tx, smp, out>>

\* generatetoaddress 1 and iteration += 1 (lines 464-465)
SplitMine ==
    /\ pc = "split_mine"
    /\ \E o \in Outcomes :
         IF o = "ok"
         THEN /\ Mine(1)
              /\ hist' = [hist EXCEPT !.split_blocks = @ + 1]
              /\ Step("split_list", [loc EXCEPT !.iteration = @ + 1])
         ELSE /\ UNCHANGED height
              /\ SplitFails(o)
    /\ UNCHANGED <<cfg, mgrVars, wallets, stats, utxo_count, inj, rpc, tx, smp, out>>

\* the closing listunspent (line 467)
SplitFinal ==
    /\ pc = "split_final"
    /\ \E o \in Outcomes :
         IF o = "ok" THEN SplitReturns ELSE SplitFails(o)
    /\ UNCHANGED <<cfg, mgrVars, height, wallets, stats, utxo_count, inj, rpc, tx, smp, out>>

\* self.utxo_count = len(listunspent) (line 399); the funding loop starts with
\* the first wallet
SeedCount ==
    /\ pc = "seed_count"
    /\ \E o \in Outcomes :
         IF o # "ok"
         THEN Raise(o) /\ utxo_count' = utxo_count
         ELSE \E c \in ListUnspentCounts :
                /\ utxo_count' = c
                /\ Step("fund_send", [NoLocals EXCEPT !.wi = 1])
    /\ UNCHANGED <<cfg, mgrVars, height, wallets, stats, hist, inj, rpc, tx, smp, out>>

\* ------------------------------------------------------- the funding loop
\* the handler of line 422 catches RPCError and what derives from it
FundingCatches(k) == IsRPCError(k)

FundWallet == wallets[loc.wi]

\* a bug: every transfer goes to the first address
FundAddressFirst(i, n) == 0

\* the index of line 419: i % len(wallet['addresses'])
FundAddress(i, n) == i % n

\* one sendtoaddress of the loop of lines 417-423
FundSend ==
    /\ pc = "fund_send"
    /\ \E o \in Outcomes :
         IF o = "ok" \/ FundingCatches(o)
         THEN Step(IF loc.fi + 1 = NumFundingTxs(FundWallet) THEN "fund_mine"
                   ELSE "fund_send",
                   [loc EXCEPT !.fi = @ + 1,
                               !.addr = FundAddress(loc.fi, NumAddresses(FundWallet)),
                               !.failed = @ \/ o # "ok"])
         ELSE Raise(o)
    /\ UNCHANGED <<cfg, mgrVars, height, genVars, rpc, tx, smp, out>>

\* the confirming block of line 425
FundMine ==
    /\ pc = "fund_mine"
    /\ \E o \in Outcomes :
         IF o = "ok"
         THEN /\ Mine(1)
              /\ hist' = [hist EXCEPT !.fund_blocks = @ + 1]
              /\ Continue("fund_balance")
         ELSE /\ UNCHANGED <<height, hist>>
              /\ Raise(o)
    /\ UNCHANGED <<cfg, mgrVars, wallets, stats, utxo_count, inj, rpc, tx, smp, out>>

\* getbalance of line 427, then the next wallet or the end of the function
FundBalance ==
    /\ pc = "fund_balance"
    /\ \E o \in Outcomes :
         IF o # "ok"
         THEN Raise(o)
         ELSE IF loc.wi = Len(wallets)
         THEN Step("gen_start", NoLocals)
         ELSE Step("fund_send", [loc EXCEPT !.wi = @ + 1, !.fi = 0, !.addr = -1])
    /\ UNCHANGED <<cfg, mgrVars, height, genVars, rpc, tx, smp, out>>

\* ------------------------------------------------------ _determine_tx_count
\* Config's cut points of the 'normal' density, in hundredths (lines 55-57, 807-811)
tx_probability_none == 30
tx_probability_low == 70
tx_probability_medium == 90

\* random.randint(a, b) from a draw u
RandInt(a, b, u) == a + (u % (b - a + 1))

\* a bug: the cut points belong to the lower band
SampleTxCountInclusive(none, low, medium, r, u) ==
    IF r <= none THEN 0
    ELSE IF r <= low THEN RandInt(1, 3, u)
    ELSE IF r <= medium THEN RandInt(4, 10, u)
    ELSE RandInt(11, 25, u)

\* lines 524-533 for the cut points none, low and medium; r is random.random()
\* in hundredths, u the draw of the randint that follows
SampleTxCount(none, low, medium, r, u) ==
    IF r < none THEN 0
    ELSE IF r < low THEN RandInt(1, 3, u)
    ELSE IF r < medium THEN RandInt(4, 10, u)
    ELSE RandInt(11, 25, u)

\* _determine_tx_count with the cut points of the 'normal' density
DetermineTxCount(r, u) ==
    SampleTxCount(tx_probability_none, tx_probability_low, tx_probability_medium, r, u)

RandDraws == {0, 29, 30, 69, 70, 89, 90, 99}
IntDraws == 0 .. 14

\* --------------------------------------------------------- _generate_blocks
\* a bug: off by one
BlocksToGenerateOneMore(target, current) == target - current + 1

\* lines 476-477
BlocksToGenerate(target, current) == target - current

\* the test of line 479
NothingToGenerate(blocks_to_generate) == blocks_to_generate <= 0

GenerateStart ==
    /\ pc = "gen_start"
    /\ \E o \in Outcomes :
         IF o # "ok"
         THEN Raise(o) /\ hist' = hist
         ELSE /\ hist' = [hist EXCEPT !.gen_height = height]
              /\ IF NothingToGenerate(BlocksToGenerate(target_blocks, height))
                 THEN Step("exp_height", NoLocals)
                 ELSE Step("gen_sample",
                           [NoLocals EXCEPT !.blocks_to_generate =
                                                BlocksToGenerate(target_blocks, height)])
    /\ UNCHANGED <<cfg, mgrVars, height, wallets, stats, utxo_count, inj, rpc, tx, smp, out>>

\* line 491
GenerateSample ==
    /\ pc = "gen_sample"
    /\ \E r \in RandDraws, u \in IntDraws :
         /\ DetermineTxCount(r, u) <= MaxTxPerBlock
         /\ Step(IF DetermineTxCount(r, u) > 0 THEN "gen_inject" ELSE "gen_mine",
                 [loc EXCEPT !.tx_count = DetermineTxCount(r, u), !.done = 0])
    /\ UNCHANGED <<cfg, mgrVars, height, genVars, rpc, tx, smp, out>>

\* ------------------------------------------------------ _create_transaction
InjBalances == {0, 99, 100, 999, 1000, 10000}
RefundThreshold == 10
SpendFloor == 1
DustFloor == 1

\* the handler of line 554 catches RPCError and what derives from it
RefundCatches(k) == IsRPCError(k)

\* the amount of a simple transaction (lines 586-587) and the amount per output
\* of a multi-output one (lines 598-599), in hundredths of a coin
SimpleAmount(balance, pct, cap) == Min((balance * pct) \div 100, cap)
AmountPerOutput(balance, pct, cap, n) == Min((balance * pct) \div 100, cap) \div n

\* The part of _create_transaction after the funding check (lines 575-611):
\* its result is "sent", "dust" or "failed".
SpendResults(balance) ==
    { IF amount < DustFloor THEN "dust" ELSE IF o = "ok" THEN "sent" ELSE "failed" :
        amount \in { SimpleAmount(balance, p, c) : p \in {10, 50}, c \in {100, 500} }
                   \cup { AmountPerOutput(balance, p, c, n) :
                            p \in {20, 50}, c \in {500, 1500}, n \in 2 .. 5 },
        o \in Outcomes }

\* One call of _create_transaction as <<refund, outcome>>:
\*   refund   "none", "ok" (payment accepted) or "failed"
\*   outcome  "sent", "dust", "low" (the return of line 571) or "failed" (a typed
\*            failure caught by lines 613-619)
InjectionResults ==
    LET first == { <<o, b>> : o \in Outcomes, b \in InjBalances }
        NoRefund(b) == { <<"none", r>> : r \in SpendResults(b) }
        Refunded(ro) ==
            IF ro # "ok" /\ ~RefundCatches(ro)
            THEN { <<"failed", "failed">> }
            ELSE LET rf == IF ro = "ok" THEN "ok" ELSE "failed"
                 IN  UNION { IF o2 # "ok" THEN { <<rf, "failed">> }
                             ELSE IF b2 < SpendFloor * Coin THEN { <<rf, "low">> }
                             ELSE { <<rf, r>> : r \in SpendResults(b2) } :
                             o2 \in Outcomes, b2 \in InjBalances }
    IN  UNION { IF x[1] # "ok" THEN { <<"none", "failed">> }
                ELSE IF x[2] < RefundThreshold * Coin
                THEN UNION { Refunded(ro) : ro \in Outcomes }
                ELSE NoRefund(x[2]) : x \in first }

\* a bug: the block is mined after the first injection
InjectionsDoneEarly(done, tx_count) == TRUE

\* the loop of line 497 ends when range(tx_count) is used up
InjectionsDone(done, tx_count) == done >= tx_count

\* a bug: the faucet is among the wallets the injector chooses from
SourceWalletsWithFaucet(ws) == {"default"} \cup { ws[i] : i \in 1 .. Len(ws) }

\* what random.choice(self.wallets) of line 559 can return: the elements of the
\* list, which must not be empty
SourceWallets(ws) == { ws[i] : i \in 1 .. Len(ws) }

\* a bug: the counter counts the refund payments sent, accepted or not
ReplAfterAttempt(n, refund) == IF refund = "none" THEN n ELSE n + 1

\* lines 551-553: utxo_replenishments after a call whose refund payment was
\* accepted ("ok"), failed, or that sent none
ReplAfter(n, refund) == IF refund = "ok" THEN n + 1 ELSE n

\* one call of line 498 with the bookkeeping of lines 496-500; hist.refunds
\* counts the refund payments the daemon accepted
GenerateInject ==
    /\ pc = "gen_inject"
    /\ SourceWallets(wallets) # {}
    /\ \E x \in InjectionResults :
         /\ inj' = [refund |-> x[1], outcome |-> x[2]]
         /\ stats' = [stats EXCEPT
                        !.utxo_replenishments = ReplAfter(@, x[1]),
                        !.transactions_created = IF x[2] = "sent" THEN @ + 1 ELSE @]
         /\ hist' = [hist EXCEPT !.injections = @ + 1,
                                 !.refunds = IF x[1] = "ok" THEN @ + 1 ELSE @]
         /\ Step(IF InjectionsDone(loc.done + 1, loc.tx_count)
                 THEN "gen_mine" ELSE "gen_inject",
                 [loc EXCEPT !.done = @ + 1,
                             !.tx_attempts = @ + 1,
                             !.tx_successes = IF x[2] = "sent" THEN @ + 1 ELSE @])
    /\ UNCHANGED <<cfg, mgrVars, height, wallets, utxo_count, rpc, tx, smp, out>>

\* the loop of line 490 goes on while block_num is in range(blocks_to_generate)
MoreBlocks(block_num, blocks_to_generate) == block_num < blocks_to_generate

NoInjection == [refund |-> "none", outcome |-> "none"]

\* a bug: a failed mining call is skipped and the loop goes on to the next block
MiningFailsNextBlock(k) ==
    Step("gen_sample", [loc EXCEPT !.block_num = @ + 1, !.tx_count = 0, !.done = 0])

\* the mining call of line 504 fails with k: nothing around it catches
MiningFails(k) == Raise(k)

\* lines 503-517: the mining call, the counter, the progress report
GenerateMine ==
    /\ pc = "gen_mine"
    /\ inj' = NoInjection
    /\ \E o \in Outcomes :
         IF o # "ok"
         THEN /\ MiningFails(o)
              /\ UNCHANGED <<height, stats, hist>>
         ELSE /\ Mine(1)
              /\ stats' = [stats EXCEPT !.blocks_generated = @ + 1]
              /\ hist' = [hist EXCEPT !.gen_blocks = @ + 1]
              /\ \E p \in Outcomes :
                   IF (loc.block_num + 1) % ProgressEvery = 0 /\ p # "ok"
                   THEN Raise(p)
                   ELSE IF MoreBlocks(loc.block_num + 1, loc.blocks_to_generate)
                   THEN Step("gen_sample",
                             [loc EXCEPT !.block_num = @ + 1, !.tx_count = 0, !.done = 0])
                   ELSE Step("exp_height", NoLocals)
    /\ UNCHANGED <<cfg, mgrVars, wallets, utxo_count, rpc, tx, smp, out>>

\* ------------------------------------------------------------- _export_data
\* getblockcount and the height warning (lines 626-628)
ExportHeight ==
    /\ pc = "exp_height"
    /\ \E o \in Outcomes :
         IF o = "ok" THEN Continue("exp_stats") ELSE Raise(o)
    /\ UNCHANGED <<cfg, mgrVars, height, genVars, rpc, tx, smp, out>>

\* _collect_wallet_statistics and _save_wallet_files (lines 640-641): the
\* collectors catch RPCError; an InsufficientFundsError leaves them, before or
\* after the faucet wallet was inserted; writing the files may fail
ExportStatsOutcomes == {"ok", "funds before insert", "funds after insert", "os"}

ExportStats ==
    /\ pc = "exp_stats"
    /\ \E o \in ExportStatsOutcomes :
         /\ wallets' = IF o = "funds before insert" THEN wallets
                       ELSE <<"default">> \o wallets
         /\ CASE o = "ok" -> Continue("exp_stop")
              [] o = "os" -> Raise("os")
              [] OTHER -> Raise("funds")
    /\ UNCHANGED <<cfg, mgrVars, height, stats, utxo_count, hist, inj, rpc, tx, smp, out>>

\* lines 644-657: terminate() and wait(10); any Exception, the timeout of wait
\* included, is reported and the handle is dropped in all cases
ExportStopOutcomes == {"graceful", "timeout", "interrupted"}

ExportStopDaemon ==
    /\ pc = "exp_stop"
    /\ IF mgr /\ process
       THEN \E o \in ExportStopOutcomes :
              /\ process' = FALSE
              /\ procRunning' = IF o = "graceful" THEN FALSE ELSE procRunning
              /\ IF o = "interrupted"
                 THEN /\ exc' = "generator"
                      /\ raisedAt' = pc
                      /\ interrupted' = TRUE
                      /\ loc' = NoLocals
                      /\ Goto("finally")
                 ELSE Continue("exp_copy")
       ELSE /\ UNCHANGED <<process, procRunning>>
            /\ Continue("exp_copy")
    /\ UNCHANGED <<cfg, mgr, temp_dir, tempExists, should_cleanup, atexitReg, start,
                   height, genVars, rpc, tx, smp, out>>

\* _copy_dashd_datadir (line 660)
ExportCopy ==
    /\ pc = "exp_copy"
    /\ \E ok \in BOOLEAN :
         IF ok THEN Continue("exp_cleanup") ELSE Raise("os")
    /\ UNCHANGED <<cfg, mgrVars, height, genVars, rpc, tx, smp, out>>

\* lines 663-669
ExportCleanup ==
    /\ pc = "exp_cleanup"
    /\ IF mgr /\ temp_dir /\ should_cleanup
       THEN tempExists' = FALSE /\ temp_dir' = FALSE
       ELSE UNCHANGED <<tempExists, temp_dir>>
    /\ Continue("summary")
    /\ UNCHANGED <<cfg, mgr, process, procRunning, should_cleanup, atexitReg, start,
                   height, genVars, rpc, tx, smp, out>>

\* ------------------------------------------------- generate(): the way out
\* lines 99-108
Summary ==
    /\ pc = "summary"
    /\ Continue("finally")
    /\ UNCHANGED <<cfg, mgrVars, height, genVars, rpc, tx, smp, out>>

\* a KeyboardInterrupt inside the try block: lines 110-112
Interrupt ==
    /\ InTry
    /\ exc' = "generator"
    /\ raisedAt' = pc
    /\ interrupted' = TRUE
    /\ loc' = NoLocals
    /\ inj' = NoInjection
    /\ Goto("finally")
    /\ UNCHANGED <<cfg, mgrVars, height, wallets, stats, utxo_count, hist, rpc, tx, smp, out>>

\* a bug: no elif branch
RemovesNothing(dir, cleanup) == FALSE

\* the elif of line 118
RemovesLeftover(dir, cleanup) == dir /\ cleanup

\* the finally block, lines 113-123; a KeyboardInterrupt that leaves stop()
\* replaces the exception that was propagating
Finally ==
    /\ pc = "finally"
    /\ pc' = "ended"
    /\ IF mgr /\ process
       THEN \E o \in StopOutcomes :
              /\ Stop(o)
              /\ exc' = IF o = "interrupted" THEN "kbd" ELSE exc
       ELSE /\ tempExists' = IF mgr /\ RemovesLeftover(temp_dir, should_cleanup)
                             THEN FALSE ELSE tempExists
            /\ UNCHANGED <<process, procRunning, temp_dir, exc>>
    /\ UNCHANGED <<raisedAt, interrupted, cfg, mgr, should_cleanup, atexitReg, start,
                   height, genVars, loc, phases, rpc, tx, smp, out>>

\* the exit hook registered by start() (line 151) runs when the interpreter exits
AtExit ==
    /\ pc = "ended"
    /\ pc' = "exited"
    /\ IF atexitReg
       THEN \E o \in StopOutcomes : Stop(o)
       ELSE UNCHANGED <<process, procRunning, temp_dir, tempExists>>
    /\ UNCHANGED <<exc, raisedAt, interrupted, cfg, mgr, should_cleanup, atexitReg, start,
                   height, genVars, loc, phases, rpc, tx, smp, out>>

\* ------------------------------------------------------------------- main
\* the classes of errors.py: ConfigError, RPCError (with DashdConnectionError)
\* and InsufficientFundsError derive from GeneratorError; "generator" is the
\* GeneratorError of line 112; OSError ("os") and KeyboardInterrupt ("kbd") do not
IsConfigError(k) == k = "config"
IsGeneratorError(k) == k \in {"config", "rpc", "conn", "funds", "generator"}

\* a bug: the handler of GeneratorError stands before that of DashdConnectionError
ExitStatusGeneralFirst(k) ==
    IF k = "none" THEN 0
    ELSE IF IsConfigError(k) THEN 1
    ELSE IF IsGeneratorError(k) THEN 4
    ELSE IF k = "conn" THEN 2
    ELSE IF k = "funds" THEN 3
    ELSE IF k = "kbd" THEN 130
    ELSE 1

\* The exit status of the process when generate() ends with exception k (lines
\* 839-859): the handlers in their order; an exception none of them catches
\* makes the interpreter print the traceback and exit with 1; generate()
\* returning lets main return, status 0.
ExitStatus(k) ==
    IF k = "none" THEN 0
    ELSE IF IsConfigError(k) THEN 1
    ELSE IF k = "conn" THEN 2
    ELSE IF k = "funds" THEN 3
    ELSE IF IsGeneratorError(k) THEN 4
    ELSE IF k = "kbd" THEN 130
    ELSE 1

\* ------------------------------------------------------------ specification
\* Spec is a whole run of generate(); SpecRpc a call of DashRPCClient.call;
\* SpecInj one block of the generation loop with the ledger of one wallet;
\* SpecAmt the spend of _create_transaction for every balance; SpecSmp the
\* density sampler for every choice of cut points; SpecOut the amounts of one
\* spend with the rounding of lines 587 and 599.
SeedTotal == SeedBlocks1 + SeedBlocks2 + SeedBlocks3
TargetHeights == {ScenarioTarget, SeedTotal + Len(WalletNames) + MaxExtraBlocks}

\* ---------------------------------------------------- DashRPCClient.call
\* the default of the constructor's max_retries (rpc_client.py line 25)
max_retries_default == 3
MaxRetriesValues == 0 .. max_retries_default

\* what _handle_error looks for in the lowered stderr
Phrases == {"error code: -6", "insufficient funds", "error code: -28",
            "could not connect", "connection refused"}

\* What one _execute can do: the command times out, launching it raises
\* ConnectionRefusedError, it exits 0 with some stdout, or it exits non-zero
\* with a stderr that holds some of the phrases.
Executions ==
    [kind : {"timeout", "refused"}, stdout : {"-"}, stderr : {{}}]
    \cup [kind : {"exit0"}, stdout : {"empty", "json", "text"}, stderr : {{}}]
    \cup [kind : {"exit"}, stdout : {"-"}, stderr : SUBSET Phrases]

\* a bug: the connection phrases are looked for first
HandleErrorConnectionFirst(stderr) ==
    IF "could not connect" \in stderr \/ "connection refused" \in stderr
    THEN <<"DashdConnectionError", 0>>
    ELSE IF "error code: -6" \in stderr \/ "insufficient funds" \in stderr
    THEN <<"InsufficientFundsError", 0>>
    ELSE IF "error code: -28" \in stderr
    THEN <<"RPCError", -28>>
    ELSE <<"RPCError", 0>>

\* _handle_error (lines 96-112): the exception raised for a stderr, as
\* <<type, code>>
HandleError(stderr) ==
    IF "error code: -6" \in stderr \/ "insufficient funds" \in stderr
    THEN <<"InsufficientFundsError", 0>>
    ELSE IF "error code: -28" \in stderr
    THEN <<"RPCError", -28>>
    ELSE IF "could not connect" \in stderr \/ "connection refused" \in stderr
    THEN <<"DashdConnectionError", 0>>
    ELSE <<"RPCError", 0>>

\* the return value of _execute for a command that exited 0 (lines 88-94)
ExecuteReturns(stdout) ==
    CASE stdout = "empty" -> "None"
      [] stdout = "json" -> "decoded"
      [] OTHER -> "stripped"

\* the exception one _execute ends with, as <<type, code>>
Thrown(e) ==
    CASE e.kind = "timeout" -> <<"TimeoutExpired", 0>>
      [] e.kind = "refused" -> <<"ConnectionRefusedError", 0>>
      [] OTHER -> HandleError(e.stderr)

\* a bug: every failure is retried
RetriedAnyFailure(type) == TRUE

\* the except clauses of call (lines 42 and 49)
Retried(type) == type \in {"TimeoutExpired", "ConnectionRefusedError"}

\* the test of lines 43 and 50
LastAttempt(attempt, max_retries) == attempt = max_retries - 1

\* the exception of lines 44-47 and 51-53, as <<type, code>>
RetriesExhausted(type) ==
    IF type = "TimeoutExpired" THEN <<"RPCError", -1>> ELSE <<"DashdConnectionError", 0>>

RECURSIVE Pow2(_)
Pow2(n) == IF n = 0 THEN 1 ELSE 2 * Pow2(n - 1)

\* a bug: a linear backoff
BackoffLinear(attempt) == 2 * attempt

\* the argument of time.sleep (lines 48 and 54)
Backoff(attempt) == Pow2(attempt)

RpcIdle ==
    [state |-> "idle", max_retries |-> 0, attempt |-> 0, log |-> << >>, slept |-> << >>,
     result |-> "-", raised |-> <<"-", 0>>]

\* one turn of the loop of call (lines 39-54), or line 56 when the loop is over
RpcAttempt ==
    /\ rpc.state = "loop"
    /\ IF rpc.attempt >= rpc.max_retries
       THEN rpc' = [rpc EXCEPT !.state = "raised", !.raised = <<"RPCError", 0>>]
       ELSE \E e \in Executions :
              LET r == [rpc EXCEPT !.log = Append(@, e)]
              IN  IF e.kind = "exit0"
                  THEN rpc' = [r EXCEPT !.state = "returned",
                                        !.result = ExecuteReturns(e.stdout)]
                  ELSE IF ~Retried(Thrown(e)[1])
                  THEN rpc' = [r EXCEPT !.state = "raised", !.raised = Thrown(e)]
                  ELSE IF LastAttempt(rpc.attempt, rpc.max_retries)
                  THEN rpc' = [r EXCEPT !.state = "raised",
                                        !.raised = RetriesExhausted(Thrown(e)[1])]
                  ELSE rpc' = [r EXCEPT !.state = "sleep"]
    /\ UNCHANGED <<ctl, cfg, mgrVars, height, genVars, loc, phases, tx, smp, out>>

\* time.sleep(2 ** attempt) returns and the loop goes on
RpcSleep ==
    /\ rpc.state = "sleep"
    /\ rpc' = [rpc EXCEPT !.state = "loop",
                          !.slept = Append(@, Backoff(rpc.attempt)),
                          !.attempt = @ + 1]
    /\ UNCHANGED <<ctl, cfg, mgrVars, height, genVars, loc, phases, tx, smp, out>>

\* ------------------------------------------- one block, seen from one wallet
\* SpecInj follows one turn of the loop of _generate_blocks (lines 490-505): the
\* injections of the block, each a call of _create_transaction (lines 557-619),
\* then the mining call.  It keeps the ledger of one tier wallet W: its balance
\* as getbalance reports it and the refunds sent to it that wait for the block.
\* Amounts are in hundredths of a coin.

\* what a daemon call inside _create_transaction may end with: a result, a typed
\* failure of the gateway, or any other exception
InjFailures == Failures \cup {"other"}
InjOutcomes == {"ok"} \cup InjFailures

\* the balance of W when the block starts
StartBalances == {Coin, 5 * Coin, 10 * Coin, 20 * Coin}

\* the draws of lines 586 and 598 as <<percentage, cap>>: the smallest and the
\* largest of each range
SimpleDraws == {<<10, Coin>>, <<50, 5 * Coin>>}
MultiDraws == {<<20, 5 * Coin>>, <<50, 15 * Coin>>}
\* random.randint(2, 5) of line 578
OutputCounts == 2 .. 5

\* The dicts the loop of lines 604-606 can build with n draws of
\* random.choice(self.all_addresses): a drawn address that is already a key
\* adds no entry, so the dict has between 1 and n keys.  The addresses are
\* interchangeable: the keys are numbered in the order they were first drawn.
OutputDicts(n) == { 1 .. k : k \in 1 .. n }

\* a bug: one refund amount for every tier
RefundCoinsFlat(tier) == 20

\* refund_amount of lines 540-545, in coins
RefundCoins(tier) ==
    IF tier = "light" THEN 20
    ELSE IF tier = "normal" THEN 40
    ELSE 60

\* a bug: no funding check, every call goes on to the amounts
NeedsRefundNever(balance) == FALSE

\* a bug: a balance equal to the threshold is refunded too
NeedsRefundAtThreshold(balance) == balance <= RefundThreshold * Coin

\* the test of line 567
NeedsRefund(balance) == balance < RefundThreshold * Coin

\* a bug: the call goes on whatever the second balance is
StillTooLowNever(balance) == FALSE

\* the test of line 570
StillTooLow(balance) == balance < SpendFloor * Coin

\* a bug: no amount is too small
IsDustNever(amount) == FALSE

\* the tests of lines 589 and 601
IsDust(amount) == amount < DustFloor

\* a bug: only the typed failures are caught
CreateCatchesTyped(k) == IsRPCError(k) \/ k = "funds"

\* the handlers of lines 613 and 616: the typed failures, then every Exception
CreateCatches(k) == (IsRPCError(k) \/ k = "funds") \/ k \in InjFailures

NoSubmission == [type |-> "none", num_outputs |-> 0, entries |-> 0, amount |-> 0]

\*   state       where the block loop is: "off", "sample", "select", the
\*               statements of a call ("balance", "refund", "balance2", "shape",
\*               "send"), "mined", "aborted", "propagated"
\*   tier, bal, pending     W's tier, its balance, the refunds not yet confirmed
\*   left, calls            injections left in the block, calls that chose W
\*   first, balance         the first balance a call read, the balance it uses
\*   call_refunds, repl0    refunds the call sent; utxo_replenishments before it
\*   created0               transactions_created before the call
\*   tx_type .. outputs     the locals of lines 575-606
\*   start_bal .. spent     the block so far: W's balance at its start, refunds
\*                          accepted, the last refund payment, a refund failed,
\*                          the funding check let a call pass, amounts debited
\*   created, repl          stats: transactions_created, utxo_replenishments
\*   accepted               the spends of the block that the daemon accepted
\*   submitted              the spend of the last call that the daemon accepted
\*   failed                 the failure the last call caught
\*   propagated             the failure that left _create_transaction
TxOff ==
    [state |-> "off", tier |-> "light", bal |-> 0, pending |-> 0, left |-> 0, calls |-> 0,
     first |-> -1, balance |-> -1, call_refunds |-> 0, repl0 |-> 0, created0 |-> 0,
     tx_type |-> "none", num_outputs |-> 0, amount |-> -1, outputs |-> {},
     start_bal |-> 0, block_refunds |-> 0, refund_paid |-> 0, refund_failed |-> FALSE,
     proceeded |-> FALSE, spent |-> 0,
     created |-> 0, repl |-> 0, accepted |-> 0,
     submitted |-> NoSubmission, failed |-> "none", propagated |-> "none"]

\* the other variables stay as they are
InjFrame == UNCHANGED <<ctl, cfg, mgrVars, height, genVars, loc, phases, rpc, smp, out>>

\* _create_transaction returns (lines 571, 590, 602, 611 or a handler): the loop
\* of line 497 goes on
CallEnds(t) == [t EXCEPT !.state = "select", !.left = @ - 1, !.outputs = {}]

\* a failure of kind k inside the try of lines 561-611: the statements after
\* the failing call are skipped, a handler that catches k ends the call
CallFails(t, k) ==
    IF CreateCatches(k)
    THEN [CallEnds(t) EXCEPT !.failed = k, !.tx_type = "none", !.num_outputs = 0,
                             !.amount = -1, !.submitted = NoSubmission]
    ELSE [t EXCEPT !.state = "propagated", !.propagated = k]

\* line 491: the number of injections of the block
InjSample ==
    /\ tx.state = "sample"
    /\ \E n \in 0 .. MaxTxPerBlock :
         tx' = [tx EXCEPT !.state = "select", !.left = n]
    /\ InjFrame

\* line 559 chooses W: a call for W starts
InjSelect ==
    /\ tx.state = "select"
    /\ tx.left > 0
    /\ tx' = [tx EXCEPT !.state = "balance", !.calls = @ + 1,
                        !.first = -1, !.balance = -1, !.call_refunds = 0,
                        !.repl0 = tx.repl, !.created0 = tx.created,
                        !.tx_type = "none", !.num_outputs = 0,
                        !.amount = -1, !.outputs = {},
                        !.submitted = NoSubmission, !.failed = "none"]
    /\ InjFrame

\* line 559 chooses another wallet: that call leaves W's ledger alone
InjOther ==
    /\ tx.state = "select"
    /\ tx.left > 0
    /\ tx' = CallEnds(tx)
    /\ InjFrame

\* getbalance of line 564 and the test of line 567
InjBalance ==
    /\ tx.state = "balance"
    /\ \E o \in InjOutcomes :
         IF o # "ok"
         THEN tx' = CallFails(tx, o)
         ELSE tx' = [tx EXCEPT !.first = tx.bal, !.balance = tx.bal,
                               !.state = IF NeedsRefund(tx.bal) THEN "refund" ELSE "shape",
                               !.proceeded = @ \/ ~NeedsRefund(tx.bal)]
    /\ InjFrame

\* _refund_wallet (lines 535-555): sendtoaddress from the faucet
InjRefund ==
    /\ tx.state = "refund"
    /\ \E o \in InjOutcomes :
         IF o = "ok"
         THEN tx' = [tx EXCEPT !.state = "balance2",
                               !.pending = @ + RefundCoins(tx.tier) * Coin,
                               !.refund_paid = RefundCoins(tx.tier) * Coin,
                               !.call_refunds = @ + 1,
                               !.block_refunds = @ + 1,
                               !.repl = @ + 1]
         ELSE IF RefundCatches(o)
         THEN tx' = [tx EXCEPT !.state = "balance2", !.refund_failed = TRUE]
         ELSE tx' = [CallFails(tx, o) EXCEPT !.refund_failed = TRUE]
    /\ InjFrame

\* getbalance of line 569, which does not show the unconfirmed refund, and the
\* test of line 570
InjBalanceAgain ==
    /\ tx.state = "balance2"
    /\ \E o \in InjOutcomes :
         IF o # "ok"
         THEN tx' = CallFails(tx, o)
         ELSE IF StillTooLow(tx.bal)
         THEN tx' = [CallEnds(tx) EXCEPT !.balance = tx.bal]
         ELSE tx' = [tx EXCEPT !.balance = tx.bal, !.state = "shape", !.proceeded = TRUE]
    /\ InjFrame

\* lines 575-606: the shape, the amount, the dust test and the outputs
InjShape ==
    /\ tx.state = "shape"
    /\ \/ \E d \in SimpleDraws :
            LET amount == SimpleAmount(tx.balance, d[1], d[2])
                t == [tx EXCEPT !.tx_type = "simple", !.num_outputs = 1, !.amount = amount]
            IN  tx' = IF IsDust(amount) THEN CallEnds(t)
                      ELSE [t EXCEPT !.state = "send", !.outputs = {1}]
       \/ \E n \in OutputCounts, d \in MultiDraws :
            LET amount == AmountPerOutput(tx.balance, d[1], d[2], n)
                t == [tx EXCEPT !.tx_type = "multi_output", !.num_outputs = n,
                                !.amount = amount]
            IN  IF IsDust(amount) THEN tx' = CallEnds(t)
                ELSE \E keys \in OutputDicts(n) :
                       tx' = [t EXCEPT !.state = "send", !.outputs = keys]
    /\ InjFrame

\* a bug: the counter counts the submissions, accepted or not
CreatedAfterAttempt(created, o) == created + 1

\* line 611 is reached when the call of line 593 or 609 returned
CreatedAfter(created, o) == IF o = "ok" THEN created + 1 ELSE created

\* sendtoaddress (line 593) or sendmany (line 609) and line 611; the daemon
\* debits what the outputs carry (its fee, far below a hundredth, is left out)
InjSend ==
    /\ tx.state = "send"
    /\ LET entries == Cardinality(tx.outputs)
           debit == tx.amount * entries
           t == [tx EXCEPT !.submitted = [type |-> tx.tx_type,
                                          num_outputs |-> tx.num_outputs,
                                          entries |-> entries,
                                          amount |-> tx.amount],
                           !.outputs = {}]
       IN  \E o \in InjOutcomes :
             IF o = "ok"
             THEN /\ debit <= tx.bal
                  /\ tx' = [CallEnds(t) EXCEPT !.bal = @ - debit,
                                               !.spent = @ + debit,
                                               !.accepted = @ + 1,
                                               !.created = CreatedAfter(@, o)]
             ELSE tx' = [CallFails(t, o) EXCEPT !.created = CreatedAfter(@, o)]
    /\ InjFrame

\* generatetoaddress of line 504: the block confirms the refunds sent to W; a
\* failure leaves the loop
InjMine ==
    /\ tx.state = "select"
    /\ tx.left = 0
    /\ \E o \in Outcomes :
         tx' = IF o = "ok"
               THEN [tx EXCEPT !.state = "mined", !.bal = @ + tx.pending, !.pending = 0,
                               !.submitted = NoSubmission, !.failed = "none"]
               ELSE [TxOff EXCEPT !.state = "aborted"]
    /\ InjFrame

\* ----------------------------------------------------------- the sampler
\* SpecSmp applies _determine_tx_count (lines 522-533) to cut points, given in
\* hundredths, and draws: the cut points of the four densities of main (lines
\* 796-817) with 0, and the draws on and next to each of them.
CutPoints == {0, 10, 30, 40, 60, 70, 90, 98, 100}
SmpDraws == {0, 9, 10, 29, 30, 39, 40, 59, 60, 69, 70, 89, 90, 97, 98, 99}

SmpOff == [state |-> "off", none |-> 0, low |-> 0, medium |-> 0, r |-> 0, u |-> 0,
           result |-> -1]

SmpCall ==
    /\ smp.state = "called"
    /\ smp' = [smp EXCEPT !.state = "returned",
                          !.result = SampleTxCount(smp.none, smp.low, smp.medium,
                                                   smp.r, smp.u)]
    /\ UNCHANGED <<ctl, cfg, mgrVars, height, genVars, loc, phases, rpc, tx, out>>

\* ------------------------------------------------- the amounts of a spend
\* SpecOut follows lines 575-611 with amounts in units of the eighth decimal
\* place, the precision round(x, 8) keeps.  The products balance * uniform(..)
\* are real numbers between the units: an amount before rounding is a pair
\* <<w, f>>, w units and f tenths of a unit.  A balance is [half, odd], that is
\* 2 * half + odd units.
SatPerCoin == 100000000

\* the balances of a wallet that passed the funding check (at least 1 coin): 1,
\* 10.00000007, 10.00000008, 20 and 40 coins
OutBalances ==
    {[half |-> 50000000, odd |-> 0], [half |-> 500000003, odd |-> 1],
     [half |-> 500000004, odd |-> 0], [half |-> 10 * SatPerCoin, odd |-> 0],
     [half |-> 20 * SatPerCoin, odd |-> 0]}

\* balance * random.uniform(0.1, 0.5) (line 586) and balance * random.uniform(0.2,
\* 0.5) (line 598): a quarter of the balance, and the values in the last unit
\* and a half below half of it, the endpoint included
ShareDraws(b) ==
    {<<b.half \div 2, 0>>, <<b.half, 0>>}
    \cup {<<b.half - 1, f>> : f \in {0, 4, 5, 8}}
    \cup (IF b.odd = 1 THEN {<<b.half, 4>>, <<b.half, 5>>} ELSE {})

\* random.uniform(1, 5) of line 586 and random.uniform(5, 15) of line 598
SimpleCaps == {<<SatPerCoin, 0>>, <<3 * SatPerCoin + 1, 6>>, <<5 * SatPerCoin, 0>>}
MultiCaps == {<<5 * SatPerCoin, 0>>, <<10 * SatPerCoin + 1, 4>>, <<15 * SatPerCoin, 0>>}

\* a bug: the cap is not applied
TotalToSendUncapped(x, c) == x

\* min(balance * uniform, cap) of lines 586 and 598
TotalToSend(x, c) ==
    IF x[1] < c[1] \/ (x[1] = c[1] /\ x[2] <= c[2]) THEN x ELSE c

\* round(t / n, 8) of lines 587 (n = 1) and 599: the nearest unit; the middle
\* between two units goes to either, as the binary value of the float happens
\* to lie
RoundedShare(t, n) ==
    LET q == t[1] \div n
        twice == 2 * (10 * (t[1] % n) + t[2])
    IN  IF twice < 10 * n THEN {q}
        ELSE IF twice > 10 * n THEN {q + 1}
        ELSE {q, q + 1}

\* the tests of lines 589 and 601 against 0.01
IsDustUnits(amount) == amount < SatPerCoin \div 100

OutOff ==
    [state |-> "off", balance |-> [half |-> 0, odd |-> 0], tx_type |-> "none",
     num_outputs |-> 0, total |-> <<0, 0>>, amount |-> -1, entries |-> 0, sent |-> 0]

OutFrame == UNCHANGED <<ctl, cfg, mgrVars, height, genVars, loc, phases, rpc, tx, smp>>

\* lines 575-606: the shape, the amount, the dust test and the outputs dict
OutShape ==
    /\ out.state = "shape"
    /\ \/ \E x \in ShareDraws(out.balance), c \in SimpleCaps :
            \E amount \in RoundedShare(TotalToSend(x, c), 1) :
              out' = [out EXCEPT !.tx_type = "simple", !.num_outputs = 1,
                                 !.total = TotalToSend(x, c), !.amount = amount,
                                 !.entries = IF IsDustUnits(amount) THEN 0 ELSE 1,
                                 !.state = IF IsDustUnits(amount) THEN "returned" ELSE "send"]
       \/ \E n \in OutputCounts, x \in ShareDraws(out.balance), c \in MultiCaps :
            \E amount \in RoundedShare(TotalToSend(x, c), n), keys \in OutputDicts(n) :
              out' = [out EXCEPT !.tx_type = "multi_output", !.num_outputs = n,
                                 !.total = TotalToSend(x, c), !.amount = amount,
                                 !.entries = IF IsDustUnits(amount) THEN 0
                                             ELSE Cardinality(keys),
                                 !.state = IF IsDustUnits(amount) THEN "returned" ELSE "send"]
    /\ OutFrame

\* sendtoaddress (line 593) or sendmany (line 609): every entry of the
\* transaction carries the amount
OutSend ==
    /\ out.state = "send"
    /\ \E o \in InjOutcomes :
         out' = IF o = "ok"
                THEN [out EXCEPT !.state = "sent", !.sent = out.entries * out.amount]
                ELSE [out EXCEPT !.state = "failed"]
    /\ OutFrame

\* the state of a Generator that is not running
NoRun ==
    /\ pc = "exited"
    /\ exc = "none"
    /\ raisedAt = "none"
    /\ interrupted = FALSE
    /\ auto_start = FALSE
    /\ keep_temp = FALSE
    /\ target_blocks = 0
    /\ mgr = FALSE
    /\ process = FALSE
    /\ procRunning = FALSE
    /\ temp_dir = FALSE
    /\ tempExists = FALSE
    /\ should_cleanup = TRUE
    /\ atexitReg = FALSE
    /\ start = [polls |-> 0, ready |-> FALSE, result |-> "none"]
    /\ height = 0
    /\ wallets = << >>
    /\ stats = [blocks_generated |-> 0, transactions_created |-> 0,
                utxo_replenishments |-> 0]
    /\ utxo_count = 0
    /\ loc = NoLocals
    /\ hist = [payments |-> 0, split_blocks |-> 0, fund_blocks |-> 0, gen_blocks |-> 0,
               gen_height |-> -1, injections |-> 0, refunds |-> 0,
               seed_height |-> -1, split_height |-> -1, send_failed |-> FALSE]
    /\ inj = NoInjection
    /\ phases = << >>

InitRpc ==
    /\ NoRun
    /\ \E m \in MaxRetriesValues : rpc = [RpcIdle EXCEPT !.state = "loop", !.max_retries = m]
    /\ tx = TxOff
    /\ smp = SmpOff
    /\ out = OutOff

NextRpc ==
    \/ RpcAttempt
    \/ RpcSleep

SpecRpc == InitRpc /\ [][NextRpc]_vars

Init ==
    /\ pc = "ensure"
    /\ exc = "none"
    /\ raisedAt = "none"
    /\ interrupted = FALSE
    /\ auto_start \in BOOLEAN
    /\ keep_temp \in (IF auto_start THEN BOOLEAN ELSE {FALSE})
    /\ target_blocks \in TargetHeights
    /\ mgr = FALSE
    /\ process = FALSE
    /\ procRunning = FALSE
    /\ temp_dir = FALSE
    /\ tempExists = FALSE
    /\ should_cleanup = TRUE
    /\ atexitReg = FALSE
    /\ start = [polls |-> 0, ready |-> FALSE, result |-> "none"]
    /\ height \in (IF auto_start THEN {0} ELSE 0 .. MaxStartHeight)
    /\ wallets = << >>
    /\ stats = [blocks_generated |-> 0, transactions_created |-> 0,
                utxo_replenishments |-> 0]
    /\ utxo_count = 0
    /\ loc = NoLocals
    /\ hist = [payments |-> 0, split_blocks |-> 0, fund_blocks |-> 0, gen_blocks |-> 0,
               gen_height |-> -1, injections |-> 0, refunds |-> 0,
               seed_height |-> -1, split_height |-> -1, send_failed |-> FALSE]
    /\ inj = NoInjection
    /\ phases = <<"INIT">>
    /\ rpc = RpcIdle
    /\ tx = TxOff
    /\ smp = SmpOff
    /\ out = OutOff

Next ==
    \/ EnsureDashdRunning
    \/ StartVerifyExecutable
    \/ StartPorts
    \/ StartPopen
    \/ WaitForReady
    \/ StartFailed
    \/ VerifyDashd
    \/ LoadWallet
    \/ CreateDefaultWallet
    \/ LoadAddresses
    \/ SeedAddress
    \/ SeedGenerate1
    \/ SeedGenerate2
    \/ SeedGenerate3
    \/ SplitAddress
    \/ SplitList
    \/ SplitBalance
    \/ SplitRecipients
    \/ SplitSend
    \/ SplitMine
    \/ SplitFinal
    \/ SeedCount
    \/ FundSend
    \/ FundMine
    \/ FundBalance
    \/ GenerateStart
    \/ GenerateSample
    \/ GenerateInject
    \/ GenerateMine
    \/ ExportHeight
    \/ ExportStats
    \/ ExportStopDaemon
    \/ ExportCopy
    \/ ExportCleanup
    \/ Summary
    \/ Interrupt
    \/ Finally
    \/ AtExit

Spec == Init /\ [][Next]_vars

\* one block for a wallet of any tier and starting balance
InitInj ==
    /\ NoRun
    /\ rpc = RpcIdle
    /\ smp = SmpOff
    /\ out = OutOff
    /\ \E tier \in {"light", "normal", "heavy"}, b \in StartBalances :
         tx = [TxOff EXCEPT !.state = "sample", !.tier = tier, !.bal = b, !.start_bal = b]

NextInj ==
    \/ InjSample
    \/ InjSelect
    \/ InjOther
    \/ InjBalance
    \/ InjRefund
    \/ InjBalanceAgain
    \/ InjShape
    \/ InjSend
    \/ InjMine

SpecInj == InitInj /\ [][NextInj]_vars

\* lines 575-611 for every balance, also those the funding check keeps away
AmtBalances == {0, 1, 4, 5, 9, 10, 24, 25, 49, 50, 99, 100, 1000, 5000}

InitAmt ==
    /\ NoRun
    /\ rpc = RpcIdle
    /\ smp = SmpOff
    /\ out = OutOff
    /\ \E b \in AmtBalances :
         tx = [TxOff EXCEPT !.state = "shape", !.bal = b, !.start_bal = b, !.left = 1,
                            !.calls = 1, !.first = b, !.balance = b, !.proceeded = TRUE]

NextAmt ==
    \/ InjShape
    \/ InjSend

SpecAmt == InitAmt /\ [][NextAmt]_vars

InitSmp ==
    /\ NoRun
    /\ rpc = RpcIdle
    /\ tx = TxOff
    /\ \E none \in CutPoints, low \in CutPoints, medium \in CutPoints, r \in SmpDraws,
          u \in IntDraws :
         /\ none <= low
         /\ low <= medium
         /\ smp = [SmpOff EXCEPT !.state = "called", !.none = none, !.low = low,
                                 !.medium = medium, !.r = r, !.u = u]
    /\ out = OutOff

NextSmp == SmpCall

SpecSmp == InitSmp /\ [][NextSmp]_vars

InitOut ==
    /\ NoRun
    /\ rpc = RpcIdle
    /\ tx = TxOff
    /\ smp = SmpOff
    /\ \E b \in OutBalances : out = [OutOff EXCEPT !.state = "shape", !.balance = b]

NextOut ==
    \/ OutShape
    \/ OutSend

SpecOut == InitOut /\ [][NextOut]_vars

\* ==================================================================== claims
PhaseOrder == <<"INIT", "SEEDING", "FUNDING", "GENERATING", "EXPORTING", "DONE">>

\* _generate_blocks has read the height and is over, and nothing failed or
\* interrupted it
GenerateFinished ==
    /\ hist.gen_height >= 0
    /\ PhaseOf(pc) # "GENERATING"
    /\ PhaseOf(raisedAt) # "GENERATING"

C2_ScenarioReachesTarget ==
    (pc = "ended" /\ exc = "none" /\ auto_start /\ target_blocks = ScenarioTarget) =>
        (stats.blocks_generated = ScenarioTarget /\ height = ScenarioTarget)

\* C3: the phases are entered in the order INIT, SEEDING, FUNDING, GENERATING,
\* EXPORTING, DONE, each at most once; generate() is inside a phase only while
\* no failure has propagated; DONE is entered only after the export has dropped
\* the daemon handle and cleaned the temporary directory, its last steps.
C3_PhasesInOrder ==
    /\ Len(phases) <= Len(PhaseOrder)
    /\ phases = SubSeq(PhaseOrder, 1, Len(phases))
    /\ PhaseOf(pc) # "END" => (phases[Len(phases)] = PhaseOf(pc) /\ exc = "none")
    /\ (pc = "summary" /\ mgr) => (~process /\ (should_cleanup => ~temp_dir))

C3_AllPhasesEntered ==
    /\ pc = "summary"
    /\ phases = PhaseOrder

\* C4: a failing faucet-to-wallet transfer of the funding loop, whatever the
\* failure, does not end the run: nothing but a user interrupt leaves generate()
\* from a funding transfer.
C4_TransferFailureNeverAborts ==
    raisedAt = "fund_send" => interrupted

\* a call of DashRPCClient.call is over
RpcOver == rpc.state \in {"returned", "raised"}

\* C5: one call executes the command at most max_retries times; a wait follows
\* every attempt but the last executed one, only attempts that timed out or
\* could not connect are waited after, the k-th wait (k from 0) lasts 2^k
\* seconds, no wait follows the max_retries-th attempt, and an attempt that
\* succeeds is the last one, its result being returned.
C5_RetryBackoff ==
    /\ Len(rpc.log) <= rpc.max_retries
    /\ Len(rpc.slept) <= 3
    /\ rpc.slept = SubSeq(<<1, 2, 4>>, 1, Len(rpc.slept))
    /\ rpc.state = "loop" => Len(rpc.slept) = Len(rpc.log)
    /\ rpc.state = "sleep" => /\ Len(rpc.slept) = Len(rpc.log) - 1
                              /\ Len(rpc.log) < rpc.max_retries
    /\ (RpcOver /\ rpc.log # << >>) => Len(rpc.slept) = Len(rpc.log) - 1
    /\ \A k \in 1 .. Len(rpc.log) :
         /\ k < Len(rpc.log) => rpc.log[k].kind \in {"timeout", "refused"}
         /\ rpc.log[k].kind = "exit0" =>
              /\ k = Len(rpc.log)
              /\ rpc.state = "returned"
              /\ rpc.result = ExecuteReturns(rpc.log[k].stdout)
         /\ (rpc.log[k].kind \in {"timeout", "refused"} /\ k < rpc.max_retries) =>
              (Len(rpc.slept) >= k \/ rpc.state = "sleep")

C5_SucceededOnThirdAttempt ==
    /\ rpc.state = "returned"
    /\ rpc.slept = <<1, 2>>
    /\ Len(rpc.log) = 3

\* a stderr of a failure that is no connection, timeout or loading problem
Permanent(stderr) ==
    stderr \cap {"error code: -28", "could not connect", "connection refused"} = {}

\* C6: an attempt that exits non-zero with a non-transient failure (insufficient
\* funds, or any text that is no connection or loading problem) is the call's
\* last execution: the typed failure (InsufficientFundsError, else RPCError) is
\* raised at once, with no wait after it.
C6_PermanentFailureNotRetried ==
    \A k \in 1 .. Len(rpc.log) :
        (rpc.log[k].kind = "exit" /\ Permanent(rpc.log[k].stderr)) =>
            /\ k = Len(rpc.log)
            /\ rpc.state = "raised"
            /\ Len(rpc.slept) = k - 1
            /\ rpc.raised[1] =
                 IF rpc.log[k].stderr \cap {"error code: -6", "insufficient funds"} # {}
                 THEN "InsufficientFundsError" ELSE "RPCError"

C6_InsufficientFundsRaisedAtOnce ==
    /\ rpc.state = "raised"
    /\ rpc.max_retries = max_retries_default
    /\ Len(rpc.log) = 1
    /\ rpc.slept = << >>
    /\ rpc.raised[1] = "InsufficientFundsError"

\* an attempt that failed transiently: the command timed out, or it reported
\* that it cannot connect or that the daemon is still loading
Transient(e) ==
    \/ e.kind = "timeout"
    \/ /\ e.kind = "exit"
       /\ e.stderr # {}
       /\ e.stderr \subseteq {"error code: -28", "could not connect", "connection refused"}

\* C7: a call all of whose attempts failed transiently has made max_retries
\* attempts and ends with DashdConnectionError.
C7_TransientRetriedThenConnectionError ==
    (rpc.state = "raised" /\ rpc.log # << >>
       /\ \A k \in 1 .. Len(rpc.log) : Transient(rpc.log[k])) =>
        /\ Len(rpc.log) = rpc.max_retries
        /\ rpc.raised[1] = "DashdConnectionError"

\* generate() is over after start() had launched the daemon
EndedAfterStart == pc = "ended" /\ atexitReg

\* C8: however generate() ends once the daemon was launched, manager.process is
\* None and the temporary directory is removed, or kept if keep_temp was given.
C8_EveryEndCleansUp ==
    EndedAfterStart =>
        /\ ~process
        /\ tempExists = keep_temp

\* C8 as amended: however generate() ends once the daemon was launched,
\* manager.process is None; with keep_temp the directory still exists; without
\* it the directory is removed unless a KeyboardInterrupt left stop() during
\* the cleanup of the finally block.
C8_EndCleansUpUnlessCleanupInterrupted ==
    EndedAfterStart =>
        /\ ~process
        /\ keep_temp => tempExists
        /\ (~keep_temp /\ exc # "kbd") => ~tempExists

C8_InterruptedInExportCleaned ==
    /\ EndedAfterStart
    /\ raisedAt = "exp_copy"
    /\ interrupted
    /\ ~keep_temp
    /\ ~tempExists
    /\ ~process

\* C9: start() returns only after a getblockcount call to the new daemon has
\* succeeded; once it has raised DashdConnectionError no daemon process runs
\* and the handle is None, and if it raised because the daemon exited or was
\* not ready in time the temporary directory is removed unless keep_temp.
C9_StartContract ==
    /\ start.result = "returned" => start.ready
    /\ start.result = "raised" =>
         /\ ~procRunning
         /\ ~process
         /\ (raisedAt = "start_failed" /\ ~keep_temp) => ~tempExists
         /\ exc = "conn"

C9_NotReadyCleanedAndRaised ==
    /\ pc = "finally"
    /\ start.result = "raised"
    /\ raisedAt = "start_failed"
    /\ ~keep_temp
    /\ ~tempExists

\* C10: one _split_utxos issues at most 10 batched payments, mines at most 10
\* blocks and counts at most 10 iterations; a payment that is issued pays
\* between 1 and 50 outputs and never more than target_count minus the output
\* count seen in that iteration.
C10_SplitBounded ==
    /\ hist.payments <= 10
    /\ hist.split_blocks <= 10
    /\ loc.iteration <= 10
    /\ hist.split_blocks <= hist.payments
    /\ pc \in {"split_send", "split_mine"} =>
         /\ loc.batch >= 1
         /\ loc.batch <= 50
         /\ loc.batch <= target_utxo_count - loc.current_count
    /\ pc = "split_send" => hist.payments < 10

C10_TenthPaymentIssued ==
    /\ pc = "split_mine"
    /\ hist.payments = 10
    /\ loc.batch = 50

\* C11: a batched payment is issued only in an iteration that saw fewer unspent
\* outputs than target_count and a faucet balance of at least the floor 10;
\* when the first count seen is already target_count or more, _split_utxos ends
\* with no payment issued, no block mined, the chain height as it found it and
\* the generation counters untouched.
C11_PaymentOnlyBelowTargetAboveFloor ==
    /\ pc \in {"split_send", "split_mine"} =>
         /\ loc.current_count < target_utxo_count
         /\ loc.balance >= SplitFloor * Coin
    /\ hist.payments > 0 => hist.split_height >= 0
    /\ (pc = "split_final" /\ loc.iteration = 0
          /\ loc.current_count >= target_utxo_count) =>
         /\ hist.payments = 0
         /\ hist.split_blocks = 0
         /\ height = hist.split_height
         /\ stats.blocks_generated = 0
         /\ stats.transactions_created = 0
         /\ stats.utxo_replenishments = 0

C11_SplitIsNoOp ==
    /\ pc = "split_final"
    /\ ~auto_start
    /\ loc.iteration = 0
    /\ loc.current_count = target_utxo_count
    /\ hist.payments = 0

\* C12: once a batched split payment has failed, _split_utxos issues no further
\* payment, mines no block and returns without raising.
C12_FailedPaymentNeverRaises ==
    hist.send_failed => (exc = "none" \/ interrupted)

\* C12 as amended: once a batched split payment has failed, whatever the
\* failure, no further payment is issued and no block is mined for the failed
\* iteration; the only statement left is the closing listunspent, and
\* _split_utxos returns normally unless that call fails with a failure other
\* than insufficient funds, which propagates.
C12_FailedPaymentStopsSplitting ==
    hist.send_failed =>
        /\ hist.split_blocks = hist.payments
        /\ \/ pc = "split_final" /\ exc = "none"
           \/ /\ PhaseOf(pc) = "END"
              /\ raisedAt = "split_final"
              /\ (interrupted \/ exc \in {"rpc", "conn"})

C12_PartialSplitThenFailedPayment ==
    /\ pc = "split_final"
    /\ hist.send_failed
    /\ hist.payments = 2
    /\ hist.split_blocks = 2

\* seeding and splitting are over and utxo_count holds the measured count
UtxoCountStored ==
    \/ PhaseOf(pc) \in {"FUNDING", "GENERATING", "EXPORTING", "DONE"}
    \/ PhaseOf(raisedAt) \in {"FUNDING", "GENERATING", "EXPORTING", "DONE"}

InCall == tx.state \in {"balance", "refund", "balance2", "shape", "send"}

\* C13: a call of the injector that finds the chosen wallet's balance at or
\* above the operating threshold 10 sends no refund payment from the faucet and
\* leaves utxo_replenishments as it was, in every such call of the block.
C13_NoRefundAtOrAboveThreshold ==
    (tx.calls >= 1 /\ tx.first >= RefundThreshold * Coin)
        => /\ tx.call_refunds = 0
           /\ tx.repl = tx.repl0
           /\ tx.state # "refund"
           /\ tx.state # "balance2"

\* a second call of the block finds the balance exactly at the threshold and
\* goes on to spend
C13_SecondCallAtThreshold ==
    /\ tx.calls = 2
    /\ tx.first = RefundThreshold * Coin
    /\ tx.state = "send"
    /\ tx.repl = 0

\* C14 (as stated): once the funding check let a call proceed for the wallet,
\* its balance after the next confirming block is at least the spend floor 1.0.
C14_ProceedImpliesFloorAfterBlock ==
    (tx.state = "mined" /\ tx.proceeded) => tx.bal >= SpendFloor * Coin

C16_InjectionFailureStaysInside ==
    [][ /\ tx'.state # "propagated"
        /\ tx'.propagated = "none"
        /\ (InCall /\ tx'.failed # "none")
              => (tx'.state = "select" /\ tx'.left = tx.left - 1)
        /\ (tx.state = "select" /\ tx.left = 0)
              => tx'.state \in {"mined", "aborted"} ]_vars

\* a call for the wallet failed with an exception of no known type
\* after it had sent a refund, and the loop has an injection left
C16_NextCallAfterUntypedFailure ==
    /\ tx.state = "select"
    /\ tx.calls = 1
    /\ tx.call_refunds = 1
    /\ tx.failed = "other"
    /\ tx.left >= 1

\* C18 (as stated): a transaction submitted as multi-output pays as many
\* destinations as the drawn num_outputs, between 2 and 5; a simple one pays 1.
C18_EntriesEqualNumOutputs ==
    /\ (tx.submitted.type = "multi_output")
          => /\ tx.submitted.entries = tx.submitted.num_outputs
             /\ tx.submitted.entries \in 2 .. 5
    /\ (tx.submitted.type = "simple") => tx.submitted.entries = 1

\* C19: no spend handed to the daemon carries an amount below the dust floor
\* 0.01; a call whose computed amount is below it has returned to the loop,
\* handed nothing to the daemon, left transactions_created alone and raised
\* nothing.
C19_DustNeverSubmitted ==
    /\ (tx.submitted.type # "none") => tx.submitted.amount >= DustFloor
    /\ (tx.state = "send") => tx.amount >= DustFloor
    /\ (tx.tx_type # "none" /\ tx.amount < DustFloor)
          => /\ tx.state = "select"
             /\ tx.left = 0
             /\ tx.submitted = NoSubmission
             /\ tx.created = 0
             /\ tx.failed = "none"
             /\ tx.propagated = "none"

\* a multi-output amount below the floor was computed and the call returned
C19_DustCallReturned ==
    /\ tx.tx_type = "multi_output"
    /\ tx.amount >= 0
    /\ tx.amount < DustFloor
    /\ tx.balance > 0
    /\ tx.state = "select"

\* C20: for cut points none <= low <= medium and a draw r, the sampler returns
\* 0 when r < none, a value in 1..3 when none <= r < low, in 4..10 when
\* low <= r < medium and in 11..25 when r >= medium; the result is in 0..25
\* and a band of no probability mass is never chosen.
C20_SamplerBands ==
    (smp.state = "returned") =>
        /\ smp.result \in 0 .. 25
        /\ (smp.r < smp.none) => smp.result = 0
        /\ (smp.none <= smp.r /\ smp.r < smp.low) => smp.result \in 1 .. 3
        /\ (smp.low <= smp.r /\ smp.r < smp.medium) => smp.result \in 4 .. 10
        /\ (smp.r >= smp.medium) => smp.result \in 11 .. 25
        /\ (smp.none = 0) => smp.result # 0
        /\ (smp.none = smp.low) => smp.result \notin 1 .. 3
        /\ (smp.low = smp.medium) => smp.result \notin 4 .. 10
        /\ (smp.medium = 100) => smp.result \notin 11 .. 25

\* the draw fell on the cut point between two bands, the lower of them empty
C20_DrawOnCutPointOfEmptyBand ==
    /\ smp.state = "returned"
    /\ smp.r = smp.low
    /\ smp.none = smp.low
    /\ smp.low < smp.medium
    /\ smp.result = 10

\* the phase ph has been entered
Entered(ph) == \E i \in 1 .. Len(phases) : phases[i] = ph

\* C21: a failed mining call of the block loop is not tried again: the loop has
\* run as many iterations as it mined blocks, the failure leaves generate()
\* with no further iteration and no export, and blocks_generated counts the
\* blocks whose mining call succeeded.
C21_MiningFailureEndsRun ==
    /\ stats.blocks_generated = hist.gen_blocks
    /\ (pc \in {"gen_sample", "gen_inject", "gen_mine"}) => loc.block_num = hist.gen_blocks
    /\ (raisedAt = "gen_mine") =>
          /\ pc \in {"finally", "ended", "exited"}
          /\ exc # "none"
          /\ (pc = "finally" /\ ~interrupted) => exc \in Failures
          /\ ~Entered("EXPORTING")
          /\ height = hist.gen_height + hist.gen_blocks

\* the mining call of the second block failed for want of a connection
C21_SecondBlockFailed ==
    /\ pc = "ended"
    /\ raisedAt = "gen_mine"
    /\ ~interrupted
    /\ exc = "conn"
    /\ stats.blocks_generated = 1

\* generate() is over and control is back in main
BackInMain == pc \in {"ended", "exited"}

C23_BlockBetweenSplitPayments ==
    /\ (pc \in {"split_list", "split_balance", "split_recipients", "split_send"}) =>
          /\ hist.payments = hist.split_blocks
          /\ loc.iteration = hist.split_blocks
          /\ height = hist.split_height + hist.split_blocks
    /\ (pc = "split_mine") => hist.payments = hist.split_blocks + 1
    /\ (pc \in {"split_recipients", "split_send"}) =>
          /\ loc.count_height = height
          /\ loc.balance_height = height
          /\ ~SplitTargetMet(loc.current_count, target_utxo_count)
          /\ ~BelowSplitFloor(loc.balance)

\* the third payment is about to be sent, two blocks after splitting began
C23_ThirdPaymentAfterTwoBlocks ==
    /\ pc = "split_send"
    /\ hist.payments = 2
    /\ hist.split_blocks = 2
    /\ loc.count_height = hist.split_height + 2

C25_StillLowCallSkips ==
    (/\ tx.state \in {"select", "shape", "send"}
     /\ tx.calls >= 1
     /\ tx.first >= 0 /\ tx.first < RefundThreshold * Coin
     /\ tx.balance >= 0 /\ tx.balance < SpendFloor * Coin
     /\ tx.failed = "none")
        => /\ tx.state = "select"
           /\ tx.tx_type = "none"
           /\ tx.num_outputs = 0
           /\ tx.amount = -1
           /\ tx.submitted = NoSubmission
           /\ tx.created = tx.created0
           /\ tx.bal = tx.first
           /\ tx.propagated = "none"
           /\ tx.call_refunds \in {0, 1}
           /\ tx.repl = tx.repl0 + tx.call_refunds

\* the second call of a block for a wallet that a spend left with half a coin:
\* its refund was accepted, the second balance is still half a coin, and the
\* call returned with nothing but the refund done
C25_SkippedAfterRefund ==
    /\ tx.state = "select"
    /\ tx.calls = 2
    /\ tx.first = 50
    /\ tx.balance = 50
    /\ tx.call_refunds = 1
    /\ tx.repl = tx.repl0 + 1
    /\ tx.pending > 0
    /\ tx.created = 1
    /\ tx.created0 = 1
    /\ tx.failed = "none"

\* C27: transactions_created grows by exactly 1 in a call of the injector whose
\* spend the daemon accepted and is left alone by every other call (skipped,
\* dust, failed refund, failed balance query, failed submission); so all through
\* the block and when it is mined the counter equals the number of accepted
\* spends and is at most the number of calls.
C27_CreatedCountsAcceptedSpends ==
    /\ tx.created = tx.accepted
    /\ tx.created <= tx.calls
    /\ InCall => tx.created = tx.created0
    /\ (tx.state \in {"select", "propagated"} /\ tx.calls >= 1) =>
           tx.created = tx.created0 + (IF tx.submitted # NoSubmission THEN 1 ELSE 0)
    /\ (tx.failed # "none" \/ tx.propagated # "none") => tx.submitted = NoSubmission

\* the second call of a block passed the funding check and its submission
\* failed: the counter still shows the one spend the first call got accepted
C27_SecondSubmissionFailed ==
    /\ tx.state = "select"
    /\ tx.calls = 2
    /\ tx.first >= RefundThreshold * Coin
    /\ tx.failed = "rpc"
    /\ tx.created0 = 1
    /\ tx.created = 1
    /\ tx.accepted = 1

\* C28: in every turn of the block loop the sampled calls of the injector, with
\* the refunds they send, all come before the turn's mining call; the turn
\* mines exactly one block; a call of the injector (and the refund inside it)
\* mines nothing; and blocks_generated grows, by 1, only in the step in which
\* the mining call returned.
InBlockLoop == pc \in {"gen_sample", "gen_inject", "gen_mine"}

C28_InjectionsThenOneBlock ==
    /\ [](pc = "gen_inject" => loc.done < loc.tx_count)
    /\ [](pc = "gen_mine" => loc.done = loc.tx_count)
    /\ [](InBlockLoop => /\ stats.blocks_generated = loc.block_num
                         /\ height = hist.gen_height + loc.block_num)
    /\ [][pc = "gen_inject" =>
            /\ height' = height
            /\ stats'.blocks_generated = stats.blocks_generated
            /\ hist'.gen_blocks = hist.gen_blocks
            /\ (pc' \in {"gen_inject", "gen_mine"}) =>
                   /\ hist'.injections = hist.injections + 1
                   /\ loc'.done = loc.done + 1
                   /\ loc'.block_num = loc.block_num
            /\ pc' # "gen_sample"]_vars
    /\ [][(InBlockLoop /\ (height' # height
                           \/ stats'.blocks_generated # stats.blocks_generated)) =>
            /\ pc = "gen_mine"
            /\ height' = height + 1
            /\ stats'.blocks_generated = stats.blocks_generated + 1
            /\ exc' = "none" \/ raisedAt' = "gen_mine"]_vars
    /\ [][(InBlockLoop /\ pc' = "gen_sample" /\ pc # "gen_start") =>
            /\ pc = "gen_mine"
            /\ loc'.block_num = loc.block_num + 1
            /\ height' = height + 1]_vars

\* the second turn of the loop made its two calls, the last of them with an
\* accepted refund, and its mining call is due; one block was generated so far
C28_SecondBlockDueAfterTwoCalls ==
    /\ pc = "gen_mine"
    /\ loc.block_num = 1
    /\ loc.tx_count = 2
    /\ loc.done = 2
    /\ inj.refund = "ok"
    /\ stats.blocks_generated = 1
    /\ stats.utxo_replenishments >= 1

\* C29: a command that exits non-zero ends the call with exactly one typed
\* failure and no result, and is the last attempt of the call.  The failure is
\* InsufficientFundsError if the error text holds "error code: -6" or
\* "insufficient funds"; else RPCError with code -28 if it holds
\* "error code: -28"; else DashdConnectionError if it holds "could not connect"
\* or "connection refused"; else a plain RPCError.  A text of several
\* categories gets the earliest.
FundsText(e) == "error code: -6" \in e.stderr \/ "insufficient funds" \in e.stderr
LoadingText(e) == "error code: -28" \in e.stderr
ConnectionText(e) == "could not connect" \in e.stderr \/ "connection refused" \in e.stderr

C29_NonZeroExitClassified ==
    \A k \in 1 .. Len(rpc.log) :
        rpc.log[k].kind = "exit" =>
            /\ k = Len(rpc.log)
            /\ rpc.state = "raised"
            /\ rpc.result = "-"
            /\ FundsText(rpc.log[k]) => rpc.raised = <<"InsufficientFundsError", 0>>
            /\ (~FundsText(rpc.log[k]) /\ LoadingText(rpc.log[k])) =>
                   rpc.raised = <<"RPCError", -28>>
            /\ (~FundsText(rpc.log[k]) /\ ~LoadingText(rpc.log[k])
                   /\ ConnectionText(rpc.log[k])) =>
                   rpc.raised = <<"DashdConnectionError", 0>>
            /\ (~FundsText(rpc.log[k]) /\ ~LoadingText(rpc.log[k])
                   /\ ~ConnectionText(rpc.log[k])) =>
                   rpc.raised = <<"RPCError", 0>>

\* after an attempt that timed out, the command exits non-zero with a text
\* that names insufficient funds, a loading daemon and a refused connection:
\* the call raised InsufficientFundsError
C29_ThreeCategoriesFundsFirst ==
    /\ Len(rpc.log) = 2
    /\ rpc.log[1].kind = "timeout"
    /\ rpc.log[2].kind = "exit"
    /\ rpc.log[2].stderr = {"insufficient funds", "error code: -28", "connection refused"}
    /\ rpc.state = "raised"
    /\ rpc.raised = <<"InsufficientFundsError", 0>>

\* C30: no payment from the faucet -- a split payment, a funding transfer or a
\* refund -- is issued before seeding has mined 400 blocks to the faucet, which
\* is the maturity window of 100 blocks and a buffer of 300; so whenever a
\* payment is about to be issued or has been issued, at least 300 rewards of
\* the seeding have matured.
PaymentDue == pc \in {"split_send", "fund_send", "gen_inject"}

PaymentIssued ==
    \/ hist.payments > 0
    \/ pc \in {"fund_send", "fund_mine", "fund_balance"} /\ loc.fi > 0
    \/ pc = "fund_send" /\ loc.wi > 1
    \/ hist.fund_blocks > 0
    \/ stats.utxo_replenishments > 0
    \/ stats.transactions_created > 0
    \/ hist.injections > 0

C30_SeededBeforeFirstPayment ==
    (PaymentDue \/ PaymentIssued) =>
        /\ hist.seed_height >= 0
        /\ height >= hist.seed_height + 400
        /\ hist.split_height >= 0 => hist.split_height = hist.seed_height + SeedTotal
        /\ SeedTotal >= CoinbaseMaturity + 300
        /\ MatureRewards(height) >= 300

\* the first split payment is due on a chain that had a block before the run:
\* the 400 blocks of the seeding are on top of it and nothing has been paid yet
C30_FirstPaymentDueAfterSeeding ==
    /\ pc = "split_send"
    /\ hist.payments = 0
    /\ hist.seed_height = 1
    /\ height = 401
    /\ loc.iteration = 0

\* C26: every spend the injector submits sends in total at most half of the
\* balance the call read and at most the cap (5 coins simple, 15 multi-output);
\* the outputs of a multi-output spend all carry total_to_send / num_outputs
\* rounded to 8 decimals.
IsRoundedShare(amount, t, n) ==
    LET q == t[1] \div n
        twice == 2 * (10 * (t[1] % n) + t[2])
    IN  \/ amount = q /\ twice <= 10 * n
        \/ amount = q + 1 /\ twice >= 10 * n

CapOf(tx_type) == IF tx_type = "simple" THEN 5 * SatPerCoin ELSE 15 * SatPerCoin

C26_SentAtMostHalfAndCap ==
    out.state = "sent" =>
        /\ out.sent <= out.balance.half
        /\ out.sent <= CapOf(out.tx_type)
        /\ IsRoundedShare(out.amount, out.total, out.num_outputs)

\* C26 as amended: total_to_send is at most half of the balance and at most the
\* cap; every output carries total_to_send / num_outputs rounded to the nearest
\* unit of the eighth decimal, and there are at most num_outputs of them; so
\* the total sent is at most the cap, and it exceeds half of the balance by at
\* most half a unit per output.  With a balance of 100 a fifth of the balance
\* is above every cap of a multi-output spend, so total_to_send is the cap
\* drawn from [5, 15].
C26_SentWithinRoundingOfHalf ==
    /\ out.state = "sent" =>
        /\ out.total[1] < out.balance.half
              \/ (out.total[1] = out.balance.half /\ out.total[2] <= 5 * out.balance.odd)
        /\ out.total[1] < CapOf(out.tx_type)
              \/ (out.total[1] = CapOf(out.tx_type) /\ out.total[2] = 0)
        /\ IsRoundedShare(out.amount, out.total, out.num_outputs)
        /\ out.entries \in 1 .. out.num_outputs
        /\ out.sent = out.entries * out.amount
        /\ out.sent <= CapOf(out.tx_type)
        /\ out.sent <= out.balance.half + (out.balance.odd + out.num_outputs) \div 2
        /\ out.tx_type = "simple" => out.num_outputs = 1
        /\ out.tx_type = "multi_output" => out.num_outputs \in 2 .. 5
    /\ \A x \in 20 .. 50, c \in 5 .. 15 :
         TotalToSend(<<x, 0>>, <<c, 0>>) = <<c, 0>>

\* a wallet with 10.00000008 coins sends five outputs of 1.00000001 each:
\* total_to_send was 5.000000038, below half of the balance, and the sum of the
\* outputs is one unit above that half
C26_FiveOutputsAboveHalf ==
    /\ out.state = "sent"
    /\ out.balance = [half |-> 500000004, odd |-> 0]
    /\ out.tx_type = "multi_output"
    /\ out.num_outputs = 5
    /\ out.entries = 5
    /\ out.total = <<500000003, 8>>
    /\ out.amount = 100000001
    /\ out.sent = 500000005

\* C31: all through block generation the wallet list the injector chooses its
\* source from holds the tier wallets light, normal and heavy and nothing else,
\* so the source of every injection is a tier wallet and never the faucet; the
\* faucet is put into the list only by the export, after which no injection
\* follows.
TierWallets == {"light", "normal", "heavy"}

C31_SourceIsTierWallet ==
    /\ InBlockLoop => /\ wallets = WalletNames
                       /\ SourceWallets(wallets) = TierWallets
    /\ (inj # NoInjection) => (InBlockLoop /\ SourceWallets(wallets) = TierWallets)
    /\ (\E i \in 1 .. Len(wallets) : wallets[i] = "default") =>
           /\ wallets = <<"default">> \o WalletNames
           /\ hist.gen_height >= 0
           /\ Entered("EXPORTING")
           /\ pc \in {"exp_stop", "exp_copy", "exp_cleanup", "summary", "finally",
                      "ended", "exited"}
           /\ inj = NoInjection

\* the second injection of a block sent a refund from the faucet to its
\* source, drawn from a list that holds the three tier wallets
C31_SecondSourceRefunded ==
    /\ pc = "gen_mine"
    /\ loc.done = 2
    /\ inj.refund = "ok"
    /\ SourceWallets(wallets) = {"light", "normal", "heavy"}
    /\ Len(wallets) = 3

\* C32: seeding and funding mine a number of blocks that does not depend on the
\* target height: 400 seeding blocks, one block per successful split payment
\* (0 to 10) and one block per tier wallet (3); when they are over the chain
\* is at least 403 blocks above the height the run started at, and for a target
\* not above the height reached block generation mines nothing.
PoolDone == pc = "gen_start" \/ hist.gen_height >= 0

PoolHeight == IF pc = "gen_start" THEN height ELSE hist.gen_height

C32_PoolBlocksPerPayment ==
    PoolDone =>
        /\ hist.fund_blocks = 3
        /\ hist.payments \in 0 .. 10
        /\ hist.split_blocks = hist.payments
        /\ PoolHeight = hist.seed_height + 400 + hist.payments + 3
        /\ PoolHeight >= hist.seed_height + 403
        /\ target_blocks <= PoolHeight =>
              (hist.gen_blocks = 0 /\ stats.blocks_generated = 0 /\ height = PoolHeight)

\* C32 as amended: 400 seeding blocks, one block per split payment whose mining
\* call succeeded -- every successful split payment but possibly the last, whose
\* mining call may fail with insufficient funds and end the splitting without a
\* block -- and one block per tier wallet; the rest as stated.
C32_PoolBlocksPerMinedPayment ==
    PoolDone =>
        /\ hist.seed_height \in 0 .. MaxStartHeight
        /\ hist.fund_blocks = Len(WalletNames)
        /\ hist.fund_blocks = 3
        /\ hist.payments \in 0 .. 10
        /\ hist.split_blocks \in {hist.payments - 1, hist.payments}
        /\ hist.split_blocks >= 0
        /\ PoolHeight = hist.seed_height + 400 + hist.split_blocks + 3
        /\ PoolHeight >= hist.seed_height + 403
        /\ PoolHeight <= hist.seed_height + 413
        /\ target_blocks <= PoolHeight =>
              /\ hist.gen_blocks = 0
              /\ stats.blocks_generated = 0
              /\ hist.injections = 0
              /\ height = PoolHeight
              /\ ~InBlockLoop

\* two split payments were accepted, the mining call after the second failed
\* with insufficient funds, and funding went on: block generation starts 404
\* blocks above the start and, the target being below, has nothing to mine
C32_SecondPaymentWithoutBlock ==
    /\ pc = "exp_height"
    /\ hist.gen_height = hist.seed_height + 404
    /\ hist.payments = 2
    /\ hist.split_blocks = 1
    /\ hist.fund_blocks = 3
    /\ target_blocks = ScenarioTarget
    /\ hist.gen_blocks = 0
    /\ exc = "none"

\* C33: stop() is idempotent.  After a stop() the process handle is None and,
\* when cleanup is enabled, the reference to the temporary directory is None;
\* a further stop(), such as the exit hook running after the cleanup of
\* generate(), terminates nothing, deletes nothing and raises nothing.
\* The steps that call stop(): start() after a failed wait (line 155, unless a
\* KeyboardInterrupt comes first), the finally block of generate() when the
\* handle is set, the exit hook.
StopCalled ==
    \/ pc = "start_failed" /\ start'.result # "none"
    \/ pc = "finally" /\ mgr /\ process
    \/ pc = "ended" /\ atexitReg

\* the stop() of this step is left by a KeyboardInterrupt
StopRaised ==
    \/ pc = "start_failed" /\ start'.result = "interrupted"
    \/ pc = "finally" /\ exc' = "kbd"

\* the manager as a stop() that returned leaves it
ManagerStopped == ~process /\ (should_cleanup => ~temp_dir)

C33_EveryStopLeavesStopped ==
    /\ [][StopCalled => (~process' /\ (should_cleanup => ~temp_dir'))]_vars
    /\ [][(pc = "ended" /\ atexitReg) =>
            (UNCHANGED <<procRunning, tempExists>> /\ exc' = exc)]_vars

\* C33 as amended: a stop() that returns leaves the handle None, the daemon it
\* held a handle of not running and, when cleanup is enabled, the directory
\* removed and its reference None; a stop() of a manager in that state changes nothing and
\* raises nothing, the exit hook after such a stop() included.  A stop() that a
\* KeyboardInterrupt leaves while it waits for the daemon sets the handle to
\* None and keeps the directory and its reference: the next stop() removes the
\* directory if cleanup is enabled.
C33_ReturnedStopIsIdempotent ==
    /\ [][(StopCalled /\ ~StopRaised) =>
            /\ ~process'
            /\ process => ~procRunning'
            /\ ~process => UNCHANGED procRunning
            /\ should_cleanup => (~temp_dir' /\ ~tempExists')
            /\ ~should_cleanup => UNCHANGED <<temp_dir, tempExists>>
            /\ ManagerStopped']_vars
    /\ [][(StopCalled /\ ManagerStopped) =>
            /\ UNCHANGED <<process, procRunning, temp_dir, tempExists>>
            /\ exc' = exc
            /\ ~StopRaised]_vars
    /\ [][(StopCalled /\ StopRaised) =>
            /\ process /\ ~process'
            /\ UNCHANGED <<temp_dir, tempExists>>]_vars
    /\ [][(pc = "ended" /\ atexitReg /\ exc = "kbd" /\ should_cleanup) =>
            /\ ~ManagerStopped
            /\ tempExists /\ ~tempExists'
            /\ temp_dir /\ ~temp_dir']_vars
    /\ []((pc = "ended" /\ atexitReg /\ exc # "kbd" /\ temp_dir /\ should_cleanup)
            => ~tempExists)

\* a failed verification sent generate() to its finally block, whose stop()
\* ended the daemon and removed the directory; the exit hook's stop() ran after
\* it and the manager is as the first stop() left it
C33_ExitHookAfterCleanup ==
    /\ pc = "exited"
    /\ atexitReg
    /\ raisedAt = "verify"
    /\ exc = "rpc"
    /\ ~keep_temp
    /\ ~process
    /\ ~procRunning
    /\ ~temp_dir
    /\ ~tempExists

\* C34: a call of the injector that reaches the computation of the amount uses
\* a balance of at least 1.0, so the amount is at least 0.1 for a simple spend
\* and at least 0.04 per output for a multi-output one, and the return of the
\* dust test (amount below 0.01) is never taken.
C34_NoDustAboveSpendFloor ==
    /\ (tx.state \in {"shape", "send"}) => tx.balance >= SpendFloor * Coin
    /\ (tx.tx_type # "none") =>
          /\ tx.balance >= SpendFloor * Coin
          /\ tx.balance >= RefundThreshold * Coin \/ tx.call_refunds = 1 \/ tx.refund_failed
          /\ tx.tx_type = "simple" => 10 * tx.amount >= Coin
          /\ tx.tx_type = "multi_output" => 25 * tx.amount >= Coin
          /\ ~IsDust(tx.amount)
          /\ tx.state = "select" => tx.submitted # NoSubmission
    /\ (tx.state = "select" /\ tx.calls >= 1 /\ tx.failed = "none"
          /\ tx.submitted = NoSubmission /\ tx.first >= 0) =>
          (tx.balance < SpendFloor * Coin /\ tx.tx_type = "none")

\* a wallet holding exactly 1.0 was refunded, passed the second balance test
\* and is about to send five outputs of 0.04 each
C34_FiveOutputsAtTheFloor ==
    /\ tx.state = "send"
    /\ tx.first = SpendFloor * Coin
    /\ tx.balance = SpendFloor * Coin
    /\ tx.call_refunds = 1
    /\ tx.tx_type = "multi_output"
    /\ tx.num_outputs = 5
    /\ 25 * tx.amount = Coin

\* C35: utxo_replenishments goes up by exactly 1 for each refund payment the
\* daemon accepted and stays as it was when the refund payment failed; one call
\* of the injector changes it by at most 1 and nothing else changes it, so at
\* any time it is the number of refund payments accepted so far.
C35_ReplenishmentsCountAcceptedRefunds ==
    /\ stats.utxo_replenishments = 0
    /\ hist.refunds = 0
    /\ [](stats.utxo_replenishments = hist.refunds)
    /\ [](stats.utxo_replenishments <= hist.injections)
    /\ [][/\ stats'.utxo_replenishments \in
               {stats.utxo_replenishments, stats.utxo_replenishments + 1}
          /\ hist'.refunds \in {hist.refunds, hist.refunds + 1}
          /\ (stats'.utxo_replenishments # stats.utxo_replenishments) =>
               /\ pc = "gen_inject"
               /\ hist'.injections = hist.injections + 1
               /\ inj'.refund = "ok"
               /\ hist'.refunds = hist.refunds + 1
          /\ (hist'.injections # hist.injections) =>
               /\ pc = "gen_inject"
               /\ hist'.injections = hist.injections + 1
               /\ inj'.refund = "ok" =>
                    stats'.utxo_replenishments = stats.utxo_replenishments + 1
               /\ inj'.refund \in {"failed", "none"} =>
                    /\ stats'.utxo_replenishments = stats.utxo_replenishments
                    /\ hist'.refunds = hist.refunds]_vars

\* the second call of a block sent a refund payment that failed, after a call
\* whose refund was accepted: the counter still reads 1
C35_FailedRefundAfterAcceptedOne ==
    /\ pc = "gen_mine"
    /\ loc.done = 2
    /\ hist.injections = 2
    /\ inj.refund = "failed"
    /\ hist.refunds = 1
    /\ stats.utxo_replenishments = 1

====
